---- MODULE Spec2Model ----
(***************************************************************************)
(* Model of the ebs-recover-and-replace tool:                              *)
(*   - Spec      : one invocation of main(): plan acquisition, save or     *)
(*                 confirmation, and manage_restore_process driving the    *)
(*                 EC2 gateway (create / stop / detach / attach / start),  *)
(*                 each gateway call followed by its waiter.               *)
(*   - CodecSpec : save_plan followed by load_plan over the text of the    *)
(*                 artifact (added below).                                 *)
(* The EC2 control plane is the environment: every call may answer with a  *)
(* non-200 response and every waiter may raise WaiterError.                *)
(***************************************************************************)
EXTENDS Integers, Sequences, FiniteSets, TLC

\* Bound: number of block devices attached to the target instance.
MaxDevs == 2

\* Python's None (the implicit return value of restore_ebs_volume after a
\* WaiterError) and the absence of the "NewVolumeId" key.
None == <<"None">>
Unset == <<"Unset">>

OrigVol(i) == <<"vol", i>>
NewVol(i) == <<"new", i>>
DevName(i) == <<"dev", i>>
TheInstance == <<"instance">>

Devs == 1 .. MaxDevs
OrigVolumes == {OrigVol(i) : i \in Devs}

----------------------------------------------------------------------------
(* Text and JSON.  A text is a sequence of characters, each a one-letter   *)
(* string; json_dumps and json_load are the json module's encoder and      *)
(* decoder over the values the tool stores: dict, list, str, int, bool,    *)
(* None.                                                                   *)

\* The printable ASCII characters in code order: code 32 to 95, and code 97 to
\* 126 (the grave accent, code 96, is left out of the alphabet).
AsciiLow == <<
    " ", "!", "\"", "#", "$", "%", "&", "'", "(", ")", "*", "+",
    ",", "-", ".", "/", "0", "1", "2", "3", "4", "5", "6", "7",
    "8", "9", ":", ";", "<", "=", ">", "?", "@", "A", "B", "C",
    "D", "E", "F", "G", "H", "I", "J", "K", "L", "M", "N", "O",
    "P", "Q", "R", "S", "T", "U", "V", "W", "X", "Y", "Z", "[",
    "\\", "]", "^", "_" >>
AsciiHigh == <<
    "a", "b", "c", "d", "e", "f", "g", "h", "i", "j", "k", "l",
    "m", "n", "o", "p", "q", "r", "s", "t", "u", "v", "w", "x",
    "y", "z", "{", "|", "}", "~" >>

\* The control characters a JSON escape can name; backspace and form feed
\* are written "^H" and "^L".
ControlCode == [c \in {"\t", "\n", "\r", "^H", "^L"} |->
    CASE c = "\t" -> 9 [] c = "\n" -> 10 [] c = "\r" -> 13 [] c = "^H" -> 8 [] OTHER -> 12]

\* ord(c)
CodeOf ==
    [c \in {AsciiLow[i] : i \in DOMAIN AsciiLow}
            \cup {AsciiHigh[i] : i \in DOMAIN AsciiHigh} \cup DOMAIN ControlCode |->
        IF c \in DOMAIN ControlCode THEN ControlCode[c]
        ELSE IF \E i \in DOMAIN AsciiLow : AsciiLow[i] = c
             THEN 31 + (CHOOSE i \in DOMAIN AsciiLow : AsciiLow[i] = c)
             ELSE 96 + (CHOOSE i \in DOMAIN AsciiHigh : AsciiHigh[i] = c)]

HexDigits == <<"0", "1", "2", "3", "4", "5", "6", "7", "8", "9",
               "a", "b", "c", "d", "e", "f">>
Digits == {"0", "1", "2", "3", "4", "5", "6", "7", "8", "9"}
DigitValue == [c \in Digits |-> CodeOf[c] - 48]

\* JSON values.
JStr(s) == [t |-> "str", v |-> s]
JInt(n) == [t |-> "int", v |-> n]
JBool(b) == [t |-> "bool", v |-> b]
JList(xs) == [t |-> "list", v |-> xs]
JDict(pairs) == [t |-> "dict", v |-> pairs]
JNone == [t |-> "None", v |-> 0]
JFloat(lexeme) == [t |-> "float", v |-> lexeme]
Pair(k, v) == [k |-> k, v |-> v]

MinOf(S) == CHOOSE q \in S : \A r \in S : q <= r

RECURSIVE ScanTo(_, _, _, _, _)
\* The first position q >= p where (s[q] \in S) = want, Len(s) + 1 if none.
\* The text is searched window by window.
ScanTo(s, p, S, want, w) ==
    IF p > Len(s) THEN Len(s) + 1
    ELSE LET hi == IF p + w - 1 < Len(s) THEN p + w - 1 ELSE Len(s)
             hits == {q \in p .. hi : (s[q] \in S) = want}
         IN  IF hits = {} THEN ScanTo(s, hi + 1, S, want, 2 * w)
             ELSE MinOf(hits)

\* str.__lt__: comparison by code point, then by length.
StrLess(a, b) ==
    LET m == IF Len(a) < Len(b) THEN Len(a) ELSE Len(b)
        d == {i \in 1 .. m : a[i] # b[i]}
    IN  IF d = {} THEN Len(a) < Len(b)
        ELSE CodeOf[a[MinOf(d)]] < CodeOf[b[MinOf(d)]]

\* sorted(dct.items()): the pairs of a dict by ascending key.
SortPairs(pairs) ==
    LET n == Len(pairs)
        rank(i) == 1 + Cardinality({j \in 1 .. n : StrLess(pairs[j].k, pairs[i].k)})
    IN  [r \in 1 .. n |-> pairs[CHOOSE i \in 1 .. n : rank(i) = r]]

\* dict lookups on a list of pairs.
HasKey(pairs, key) == \E i \in DOMAIN pairs : pairs[i].k = key
Get(pairs, key) == pairs[CHOOSE i \in DOMAIN pairs : pairs[i].k = key].v
\* dct[key] = value: a key already present keeps its place.
SetItem(pairs, key, value) ==
    IF HasKey(pairs, key)
    THEN [i \in DOMAIN pairs |-> IF pairs[i].k = key THEN Pair(key, value) ELSE pairs[i]]
    ELSE Append(pairs, Pair(key, value))

\* json.encoder ESCAPE_ASCII for one character.
EscapeChar(c) ==
    CASE c = "\"" -> <<"\\", "\"">>
      [] c = "\\" -> <<"\\", "\\">>
      [] c = "\n" -> <<"\\", "n">>
      [] c = "\r" -> <<"\\", "r">>
      [] c = "\t" -> <<"\\", "t">>
      [] c = "^H" -> <<"\\", "b">>
      [] c = "^L" -> <<"\\", "f">>
      [] OTHER -> <<c>>

RECURSIVE Concat(_, _)
\* The texts parts[i..] joined.
Concat(parts, i) ==
    IF i > Len(parts) THEN <<>> ELSE parts[i] \o Concat(parts, i + 1)

\* The texts joined with ", " between them.
JoinComma(parts) ==
    Concat([i \in DOMAIN parts |->
                IF i = 1 THEN parts[i] ELSE <<",", " ">> \o parts[i]], 1)

Escaped == {"\"", "\\", "\n", "\r", "\t", "^H", "^L"}

RECURSIVE EscapeFrom(_, _)
\* s[p..] with every character that needs it escaped, one stretch of plain
\* characters at a time.
EscapeFrom(s, p) ==
    LET q == ScanTo(s, p, Escaped, TRUE, 8)
    IN  IF q > Len(s) THEN SubSeq(s, p, Len(s))
        ELSE SubSeq(s, p, q - 1) \o EscapeChar(s[q]) \o EscapeFrom(s, q + 1)

\* py_encode_basestring_ascii
EncodeString(s) == <<"\"">> \o EscapeFrom(s, 1) \o <<"\"">>

RECURSIVE NatDigits(_)
NatDigits(n) ==
    IF n < 10 THEN <<HexDigits[n + 1]>>
    ELSE NatDigits(n \div 10) \o <<HexDigits[(n % 10) + 1]>>

\* int.__repr__
IntRepr(n) == IF n < 0 THEN <<"-">> \o NatDigits(0 - n) ELSE NatDigits(n)

RECURSIVE json_dumps(_, _)
\* json.dumps(obj, sort_keys=sort_keys, ensure_ascii=True), default separators.
json_dumps(obj, sort_keys) ==
    CASE obj.t = "str" -> EncodeString(obj.v)
      [] obj.t = "int" -> IntRepr(obj.v)
      [] obj.t = "bool" -> IF obj.v THEN <<"t", "r", "u", "e">>
                           ELSE <<"f", "a", "l", "s", "e">>
      [] obj.t = "None" -> <<"n", "u", "l", "l">>
      [] obj.t = "float" -> obj.v
      [] obj.t = "list" ->
            <<"[">> \o JoinComma([i \in DOMAIN obj.v |-> json_dumps(obj.v[i], sort_keys)])
                    \o <<"]">>
      [] obj.t = "dict" ->
            LET items == IF sort_keys THEN SortPairs(obj.v) ELSE obj.v
            IN  <<"{">> \o JoinComma([i \in DOMAIN items |->
                              EncodeString(items[i].k) \o <<":", " ">>
                                  \o json_dumps(items[i].v, sort_keys)])
                        \o <<"}">>

\* The decoder's results: a value and the position after it, or an error.
Decoded(val, pos) == [ok |-> TRUE, val |-> val, pos |-> pos]
JSONDecodeError == [ok |-> FALSE, val |-> JNone, pos |-> 0]

\* s[p:p+1], "" past the end.
At(s, p) == IF p >= 1 /\ p <= Len(s) THEN s[p] ELSE ""

\* json.decoder WHITESPACE
Whitespace == {" ", "\t", "\n", "\r"}
SkipWs(s, p) == IF At(s, p) \in Whitespace THEN ScanTo(s, p, Whitespace, FALSE, 2) ELSE p

\* json.decoder BACKSLASH
BACKSLASH == [c \in {"\"", "\\", "/", "b", "f", "n", "r", "t"} |->
    CASE c = "b" -> "^H" [] c = "f" -> "^L" [] c = "n" -> "\n"
      [] c = "r" -> "\r" [] c = "t" -> "\t" [] OTHER -> c]

StringStop == {"\"", "\\", "\t", "\n", "\r", "^H", "^L"}

RECURSIVE py_scanstring(_, _, _)
\* py_scanstring(s, end, strict=True), end just after the opening quote.  A
\* \uXXXX escape is rejected: no text of the model holds four hexadecimal
\* digits after a "u".
py_scanstring(s, end, acc) ==
    LET q == ScanTo(s, end, StringStop, TRUE, 4)
        chunk == acc \o SubSeq(s, end, q - 1)
    IN  IF q > Len(s) THEN JSONDecodeError
        ELSE IF s[q] = "\"" THEN Decoded(chunk, q + 1)
        ELSE IF s[q] # "\\" THEN JSONDecodeError
        ELSE IF At(s, q + 1) \in DOMAIN BACKSLASH
             THEN py_scanstring(s, q + 2, Append(chunk, BACKSLASH[s[q + 1]]))
             ELSE JSONDecodeError

RECURSIVE DigitsValue(_, _)
DigitsValue(ds, n) ==
    IF n = 0 THEN 0 ELSE 10 * DigitsValue(ds, n - 1) + DigitValue[ds[n]]

\* json.scanner NUMBER_RE and the conversion of its match.
ScanNumber(s, p) ==
    LET neg == At(s, p) = "-"
        a == IF neg THEN p + 1 ELSE p
        b == IF At(s, a) = "0" THEN a + 1 ELSE ScanTo(s, a, Digits, FALSE, 4)
        fracEnd == IF At(s, b) = "." /\ At(s, b + 1) \in Digits
                   THEN ScanTo(s, b + 1, Digits, FALSE, 4) ELSE b
        expAt == IF At(s, fracEnd + 1) \in {"+", "-"} THEN fracEnd + 2 ELSE fracEnd + 1
        expEnd == IF At(s, fracEnd) \in {"e", "E"} /\ At(s, expAt) \in Digits
                  THEN ScanTo(s, expAt, Digits, FALSE, 4) ELSE fracEnd
    IN  IF At(s, a) \notin Digits THEN JSONDecodeError
        ELSE IF expEnd > b THEN Decoded(JFloat(SubSeq(s, p, expEnd - 1)), expEnd)
        ELSE LET n == DigitsValue(SubSeq(s, a, b - 1), b - a)
             IN  Decoded(JInt(IF neg THEN 0 - n ELSE n), b)

Literal(s, p, word) == SubSeq(s, p, IF p + Len(word) - 1 <= Len(s)
                                    THEN p + Len(word) - 1 ELSE Len(s)) = word

RECURSIVE scan_once(_, _)
RECURSIVE JSONObject(_, _, _)
RECURSIVE JSONArray(_, _, _)

\* json.scanner py_make_scanner._scan_once (NaN and Infinity apart).
scan_once(s, idx) ==
    LET nextchar == At(s, idx)
    IN  CASE nextchar = "\"" ->
                LET r == py_scanstring(s, idx + 1, <<>>)
                IN  IF r.ok THEN Decoded(JStr(r.val), r.pos) ELSE JSONDecodeError
          [] nextchar = "{" ->
                LET e == SkipWs(s, idx + 1)
                IN  IF At(s, e) = "}" THEN Decoded(JDict(<<>>), e + 1)
                    ELSE JSONObject(s, e, <<>>)
          [] nextchar = "[" ->
                LET e == SkipWs(s, idx + 1)
                IN  IF At(s, e) = "]" THEN Decoded(JList(<<>>), e + 1)
                    ELSE JSONArray(s, e, <<>>)
          [] nextchar = "n" /\ Literal(s, idx, <<"n", "u", "l", "l">>) ->
                Decoded(JNone, idx + 4)
          [] nextchar = "t" /\ Literal(s, idx, <<"t", "r", "u", "e">>) ->
                Decoded(JBool(TRUE), idx + 4)
          [] nextchar = "f" /\ Literal(s, idx, <<"f", "a", "l", "s", "e">>) ->
                Decoded(JBool(FALSE), idx + 5)
          [] nextchar \in Digits \cup {"-"} -> ScanNumber(s, idx)
          [] OTHER -> JSONDecodeError

\* json.decoder JSONObject from a member on: end is at the quote opening the
\* key; pairs holds the members read so far.
JSONObject(s, end, pairs) ==
    IF At(s, end) # "\"" THEN JSONDecodeError
    ELSE LET key == py_scanstring(s, end + 1, <<>>)
         IN  IF ~key.ok THEN JSONDecodeError
             ELSE LET colon == SkipWs(s, key.pos)
                  IN  IF At(s, colon) # ":" THEN JSONDecodeError
                      ELSE LET value == scan_once(s, SkipWs(s, colon + 1))
                           IN  IF ~value.ok THEN JSONDecodeError
                               ELSE LET e == SkipWs(s, value.pos)
                                        now == SetItem(pairs, key.val, value.val)
                                    IN  IF At(s, e) = "}" THEN Decoded(JDict(now), e + 1)
                                        ELSE IF At(s, e) # "," THEN JSONDecodeError
                                        ELSE JSONObject(s, SkipWs(s, e + 1), now)

\* json.decoder JSONArray from an element on.
JSONArray(s, end, values) ==
    LET value == scan_once(s, end)
    IN  IF ~value.ok THEN JSONDecodeError
        ELSE LET e == SkipWs(s, value.pos)
                 now == Append(values, value.val)
             IN  IF At(s, e) = "]" THEN Decoded(JList(now), e + 1)
                 ELSE IF At(s, e) # "," THEN JSONDecodeError
                 ELSE JSONArray(s, SkipWs(s, e + 1), now)

\* json.load: JSONDecoder.decode, the whole text is one value.
json_load(s) ==
    LET r == scan_once(s, SkipWs(s, 1))
    IN  IF ~r.ok THEN JSONDecodeError
        ELSE IF SkipWs(s, r.pos) # Len(s) + 1 THEN JSONDecodeError
        ELSE r

\* hashlib.md5(...).hexdigest(), taken to be free of collisions: the digest
\* spells the code of every character of the text in hexadecimal.
md5_hexdigest(text) ==
    [i \in 1 .. 2 * Len(text) |->
        LET code == CodeOf[text[(i + 1) \div 2]]
        IN  IF i % 2 = 1 THEN HexDigits[(code \div 16) + 1]
            ELSE HexDigits[(code % 16) + 1]]

\* The key names of the artifact and of the plan.
K_plan == <<"p", "l", "a", "n">>
K_metadata == <<"m", "e", "t", "a", "d", "a", "t", "a">>
K_timestamp == <<"t", "i", "m", "e", "s", "t", "a", "m", "p">>
K_checksum == <<"c", "h", "e", "c", "k", "s", "u", "m">>
K_instance_dict == <<"i", "n", "s", "t", "a", "n", "c", "e", "_", "d", "i", "c", "t">>
K_searchtags_dict == <<"s", "e", "a", "r", "c", "h", "t", "a", "g", "s", "_", "d", "i", "c", "t">>
K_Name == <<"N", "a", "m", "e">>
K_IPAddress == <<"I", "P", "A", "d", "d", "r", "e", "s", "s">>
K_BlockDevs == <<"B", "l", "o", "c", "k", "D", "e", "v", "s">>
K_SwitchVols == <<"S", "w", "i", "t", "c", "h", "V", "o", "l", "s">>
K_DeviceName == <<"D", "e", "v", "i", "c", "e", "N", "a", "m", "e">>
K_VolumeId == <<"V", "o", "l", "u", "m", "e", "I", "d">>
K_AvailabilityZone == <<"A", "v", "a", "i", "l", "a", "b", "i", "l", "i", "t", "y", "Z", "o", "n", "e">>
K_Encrypted == <<"E", "n", "c", "r", "y", "p", "t", "e", "d">>
K_Size == <<"S", "i", "z", "e">>
K_VolumeType == <<"V", "o", "l", "u", "m", "e", "T", "y", "p", "e">>
K_KmsKeyId == <<"K", "m", "s", "K", "e", "y", "I", "d">>
K_Snapshots == <<"S", "n", "a", "p", "s", "h", "o", "t", "s">>
K_SnapshotData == <<"S", "n", "a", "p", "s", "h", "o", "t", "D", "a", "t", "a">>
K_SnapshotId == <<"S", "n", "a", "p", "s", "h", "o", "t", "I", "d">>
K_StartTime == <<"S", "t", "a", "r", "t", "T", "i", "m", "e">>

----------------------------------------------------------------------------
(* One invocation of main().                                               *)

VARIABLES
    pc,             \* position of main() / manage_restore_process
    args,           \* parsed command line: loadplan, saveplan, switchvols
    searchtags_dict,\* the tag filters of the plan, in order; empty before they are read
    attempts,       \* polls the waiter in progress has made without a verdict
    rerun,          \* a later invocation with --loadplan on the same plan file
    plan_read,      \* what load_plan returned of the plan file, as far as it is followed
    instance_dict,  \* the plan: [BlockDevs, SwitchVols] of the one instance
    idx,            \* index of the block device the current loop is at
    confirmed,      \* answer given to get_user_confirmation, "unasked" before
    calls,          \* gateway calls issued so far, with response and wait result
    instState,      \* live power state of the instance
    volumes,        \* live set of volumes
    volState,       \* live status of each volume
    attachedAs      \* live device name under which a volume is attached, or None

VARIABLES
    cpc,        \* "new", "saved", "tampered", "loaded", "save_failed",
                \* "foreign", "foreign_loaded"
    plan_in,    \* searchtags_dict and instance_dict handed to save_plan
    file,       \* text of the plan file, NoFile before it is written
    planSpan,   \* first and last position of the plan sub-object in the file
    tampered,   \* position of the character changed after the save, 0 if none
    artifact,   \* the object another hand wrote to the file, JNone if none did
    loaded      \* what load_plan did: outcome and the plan returned

VARIABLES
    load_outcome,   \* what load_plan did in this invocation, "not_called" before
    verified        \* the lookups revalidate_loaded_plan made, with their outcome

VARIABLES
    spc,        \* position of main() in the interactive acquisition of a plan
    found,      \* instance_dict as the acquisition holds it: a list of instances
    prev,       \* the step taken last: function, position and plan before it
    answer,     \* the line the last step read from the operator, NoAnswer if none
    block_index,\* the block device get_snapshot_choice is at, 0 outside it
    history     \* devices of each instance discovered, prompts shown, queries made

VARIABLES
    hpc,                \* position of the webhook validator's main()
    pipeline_config,    \* the pipeline configuration load_pipeline_config read
    webhooks_dict,      \* the webhooked resources, in insertion order
    results             \* what display_results returned, NoResults before

codecVars == <<cpc, plan_in, file, planSpan, tampered, artifact, loaded>>
loadVars == <<load_outcome, verified>>
selVars == <<spc, found, prev, answer, block_index, history>>
runVars == <<pc, args, searchtags_dict, attempts, rerun, plan_read, instance_dict, idx, confirmed, calls,
             instState, volumes, volState, attachedAs, loadVars>>
hookVars == <<hpc, pipeline_config, webhooks_dict, results>>
vars == <<runVars, codecVars, selVars, hookVars>>


AllVolumes == OrigVolumes \cup {NewVol(i) : i \in Devs}

\* A response whose HTTPStatusCode is 200, or any other one.
Responses == {"ok", "error"}
\* A waiter returns, or raises WaiterError (budget exhausted or terminal failure).
WaitResults == {"ok", "WaiterError"}

\* validate_response: a status other than 200 ends the process (log_output
\* with level "error" calls sys.exit(1)).
validate_response(response) == response = "ok"

RECURSIVE SubSeqsFrom(_, _)
SubSeqsFrom(i, n) ==
    IF i > n THEN {<<>>}
    ELSE LET rest == SubSeqsFrom(i + 1, n)
         IN  rest \cup {<<i>> \o r : r \in rest}

\* Finalized device selections: a non-empty sub-list of the attached
\* devices, order preserved.
DeviceSelections == SubSeqsFrom(1, MaxDevs) \ {<<>>}

\* What a plan records of its instance and of the volume and the selected
\* snapshot of a block device (fields of instance_dict).
RecordedName == "web"
RecordedIP == "10.0.0.5"
\* get_volume_data, lines 280-297: KmsKeyId is the key of an encrypted
\* volume and empty otherwise.
RecordedVolume(vol) ==
    [AvailabilityZone |-> "az1",
     Encrypted |-> (vol[2] % 2 = 0),
     Size |-> 8,
     VolumeType |-> "gp3",
     KmsKeyId |-> IF vol[2] % 2 = 0 THEN "key1" ELSE ""]
\* StartTime values are datetimes: the day is what tells them apart.
RecordedDay == 1
format_StartTime(datetime) == <<"2024-01-0", datetime.day, " 00:00:00+00:00">>
SnapshotOf(vol) == <<"snap", vol[2]>>

\* A block device of a finalized plan: the volume attributes merged in by
\* get_volume_data and the one snapshot left by get_snapshot_choice.
BlockDev(i) ==
    [DeviceName |-> DevName(i), VolumeId |-> OrigVol(i), NewVolumeId |-> Unset,
     AvailabilityZone |-> RecordedVolume(OrigVol(i)).AvailabilityZone,
     Encrypted |-> RecordedVolume(OrigVol(i)).Encrypted,
     Size |-> RecordedVolume(OrigVol(i)).Size,
     VolumeType |-> RecordedVolume(OrigVol(i)).VolumeType,
     KmsKeyId |-> RecordedVolume(OrigVol(i)).KmsKeyId,
     SnapshotData |-> << [SnapshotId |-> SnapshotOf(OrigVol(i)),
                          StartTime |-> format_StartTime([day |-> RecordedDay])] >>]

NDevs == Len(instance_dict.BlockDevs)

EmptyPlan == [BlockDevs |-> <<>>, SwitchVols |-> FALSE]

\* No plan file has been read.
NoPlanRead == [read |-> FALSE, SwitchVols |-> FALSE]

\* No later invocation has been started.
NoRerun == [pc |-> "idle", idx |-> 0, verified |-> <<>>]

RunInit ==
    /\ pc = "start"
    /\ args \in [loadplan : BOOLEAN, saveplan : BOOLEAN, switchvols : BOOLEAN]
    /\ searchtags_dict = <<>>
    /\ attempts = 0
    /\ rerun = NoRerun
    /\ plan_read = NoPlanRead
    /\ instance_dict = EmptyPlan
    /\ idx = 0
    /\ confirmed = "unasked"
    /\ calls = <<>>
    /\ instState = "running"
    /\ volumes = OrigVolumes
    /\ volState = [v \in AllVolumes |-> IF v \in OrigVolumes THEN "in-use" ELSE "absent"]
    /\ attachedAs = [v \in AllVolumes |->
                        IF v \in OrigVolumes THEN DevName(v[2]) ELSE None]
    /\ load_outcome = "not_called"
    /\ verified = <<>>

Env == <<instState, volumes, volState, attachedAs>>

----------------------------------------------------------------------------
(* save_plan and load_plan over the text of the artifact (CodecSpec).      *)

\* Bound: block devices of the instance in a plan handed to save_plan.
MaxPlanDevs == 1
\* Bound: the clock (int(time.time())) when the plan is saved.
SaveTime == 7

OneChar(i) == <<HexDigits[i + 1]>>

\* A block device record as main builds it up: query_ec2_instances,
\* get_volume_data, query_ebs_snapshots and get_snapshot_choice.
PlanBlockDev(i, encrypted) ==
    JDict(<< Pair(K_DeviceName, JStr(<<"d">> \o OneChar(i))),
             Pair(K_VolumeId, JStr(<<"v">> \o OneChar(i))),
             Pair(K_AvailabilityZone, JStr(<<"z">>)),
             Pair(K_Encrypted, JBool(encrypted)),
             Pair(K_Size, JInt(8)),
             Pair(K_VolumeType, JStr(<<"g">>)),
             Pair(K_KmsKeyId, JStr(IF encrypted THEN <<"k">> ELSE <<>>)),
             Pair(K_Snapshots, JInt(2)),
             Pair(K_SnapshotData,
                  JList(<< JDict(<< Pair(K_SnapshotId, JStr(<<"s">> \o OneChar(i))),
                                    Pair(K_StartTime, JStr(<<"t">>)) >>) >>)) >>)

\* instance_dict with its one selected instance.
PlanInstances(ndevs, encrypted, switch) ==
    JDict(<< Pair(<<"i">>,
                  JDict(<< Pair(K_Name, JStr(<<"n", "\"", "\\">>)),
                           Pair(K_IPAddress, JStr(<<"1", ".", "2">>)),
                           Pair(K_BlockDevs,
                                JList([i \in 1 .. ndevs |-> PlanBlockDev(i, encrypted)])),
                           Pair(K_SwitchVols, JBool(switch)) >>)) >>)

\* searchtags_dict as process_searchtags returns it, in command line order.
PlanSearchTags == JDict(<< Pair(<<"T">>, JStr(<<"x">>)), Pair(<<"E">>, JStr(<<"y">>)) >>)

\* The plans handed to save_plan.
CodecPlans ==
    {[searchtags_dict |-> PlanSearchTags,
      instance_dict |-> PlanInstances(n, e, sw)] :
        n \in 1 .. MaxPlanDevs, e \in BOOLEAN, sw \in BOOLEAN}

NoPlan == [searchtags_dict |-> JNone, instance_dict |-> JNone]
NoFile == <<>>

\* save_plan, lines 816-820: the checksum of the plan sub-object.
save_checksum(plan) == md5_hexdigest(json_dumps(plan, TRUE))

\* save_plan, lines 812-823: output_dict.
output_dict(searchtags, instances, timestamp) ==
    LET plan == JDict(<< Pair(K_instance_dict, instances),
                         Pair(K_searchtags_dict, searchtags) >>)
    IN  JDict(<< Pair(K_plan, plan),
                 Pair(K_metadata,
                      JDict(<< Pair(K_timestamp, JInt(timestamp)),
                               Pair(K_checksum, JStr(save_checksum(plan))) >>)) >>)

\* save_plan, line 828: the text written to the file.
save_plan_text(searchtags, instances, timestamp) ==
    json_dumps(output_dict(searchtags, instances, timestamp), FALSE)

\* Variant of load_checksum that leaves the keys in the order they were read.
load_checksum_Unsorted(plan) == md5_hexdigest(json_dumps(plan, FALSE))

\* load_plan, lines 878-882: the checksum of the plan sub-object read back.
load_checksum(plan) == md5_hexdigest(json_dumps(plan, TRUE))

\* `key in obj` for the objects json.load can return.
PyIn(key, obj) ==
    CASE obj.t = "dict" -> HasKey(obj.v, key)
      [] obj.t = "list" -> \E i \in DOMAIN obj.v : obj.v[i] = JStr(key)
      [] obj.t = "str" -> \E i \in 1 .. Len(obj.v) - Len(key) + 1 :
                              SubSeq(obj.v, i, i + Len(key) - 1) = key
      [] OTHER -> FALSE
Iterable(obj) == obj.t \in {"dict", "list", "str"}

Exit(outcome) == [outcome |-> outcome, plan |-> NoPlan]

\* The outcomes in which load_plan ends the process and returns nothing.
LoadFailures ==
    {"JSONDecodeError", "not_a_data_structure", "structure_elements_missing",
     "TypeError", "plan_elements_missing", "KeyError", "checksum_mismatch"}

\* Variant of checksum_differs that never reports a difference.
checksum_differs_Never(metadata_checksum, plan_checksum) == FALSE

\* load_plan, lines 877 and 883: the stored and the recomputed checksum differ.
checksum_differs(metadata_checksum, plan_checksum) ==
    metadata_checksum # JStr(plan_checksum)

\* A load that takes only a plan saved at SaveTime or later.
plan_age_computable_OnlyFresh(timestamp) ==
    timestamp.t = "int" /\ timestamp.v >= SaveTime

\* load_plan, line 887: int(time.time()) - timestamp is computed for every
\* number, whatever its value, and raises TypeError for anything else.
plan_age_computable(timestamp) == timestamp.t \in {"int", "float", "bool"}

\* load_plan, lines 871-890: the checks on plan and metadata, and the return.
load_plan_verify(plan, metadata) ==
    IF ~Iterable(plan) THEN Exit("TypeError")
    ELSE IF ~PyIn(K_searchtags_dict, plan) \/ ~PyIn(K_instance_dict, plan)
         THEN Exit("plan_elements_missing")
    ELSE IF metadata.t # "dict" THEN Exit("TypeError")
    ELSE IF ~HasKey(metadata.v, K_checksum) THEN Exit("KeyError")
    ELSE IF checksum_differs(Get(metadata.v, K_checksum), load_checksum(plan))
         THEN Exit("checksum_mismatch")
    ELSE IF ~HasKey(metadata.v, K_timestamp) THEN Exit("KeyError")
    ELSE IF ~plan_age_computable(Get(metadata.v, K_timestamp))
         THEN Exit("TypeError")
    ELSE IF plan.t # "dict" THEN Exit("TypeError")
    ELSE [outcome |-> "loaded",
          plan |-> [searchtags_dict |-> Get(plan.v, K_searchtags_dict),
                    instance_dict |-> Get(plan.v, K_instance_dict)]]

\* load_plan, lines 865-869: the checks on the object read from the file.
load_plan_structure(input_dict) ==
    IF input_dict.t # "dict" THEN Exit("not_a_data_structure")
    ELSE IF ~HasKey(input_dict.v, K_metadata) \/ ~HasKey(input_dict.v, K_plan)
         THEN Exit("structure_elements_missing")
    ELSE load_plan_verify(Get(input_dict.v, K_plan), Get(input_dict.v, K_metadata))

\* load_plan, lines 850-853: json.load raises or returns input_dict.
load_plan_parsed(parsed) ==
    IF ~parsed.ok THEN Exit("JSONDecodeError") ELSE load_plan_structure(parsed.val)

\* load_plan, lines 850-890, on the text of the file.
load_plan_result(text) == load_plan_parsed(json_load(text))

\* Characters a tampering hand may put in place of one character.
TamperChars == {" ", "\t", "\"", "x", "7", ",", "-"}

CodecInit ==
    /\ cpc = "new"
    /\ plan_in \in CodecPlans
    /\ file = NoFile
    /\ planSpan = <<0, 0>>
    /\ tampered = 0
    /\ artifact = JNone
    /\ loaded = Exit("not_called")

\* save_plan, lines 804-837: the artifact is written, or the write fails and
\* the process exits with the OSError.
save_plan ==
    /\ cpc = "new"
    /\ \/ /\ file' = save_plan_text(plan_in.searchtags_dict, plan_in.instance_dict, SaveTime)
          /\ planSpan' =
                LET head == Len(<<"{">> \o EncodeString(K_plan) \o <<":", " ">>)
                    body == Len(json_dumps(
                                JDict(<< Pair(K_instance_dict, plan_in.instance_dict),
                                         Pair(K_searchtags_dict, plan_in.searchtags_dict) >>),
                                FALSE))
                IN  <<head + 1, head + body>>
          /\ cpc' = "saved"
       \/ /\ cpc' = "save_failed"
          /\ UNCHANGED <<file, planSpan>>
    /\ UNCHANGED <<plan_in, tampered, artifact, loaded, runVars, selVars, hookVars>>

\* One character of the plan sub-object of the saved file is replaced.
tamper_plan ==
    /\ cpc = "saved"
    /\ \E p \in planSpan[1] .. planSpan[2], c \in TamperChars :
        /\ c # file[p]
        /\ file' = [file EXCEPT ![p] = c]
        /\ tampered' = p
    /\ cpc' = "tampered"
    /\ UNCHANGED <<plan_in, planSpan, artifact, loaded, runVars, selVars, hookVars>>

\* Values a hand-written file may hold where save_plan writes the plan.
ForeignPlans ==
    << JDict(<<>>),
       JDict(<< Pair(K_instance_dict, JDict(<<>>)) >>),
       JDict(<< Pair(K_searchtags_dict, JDict(<<>>)) >>),
       JDict(<< Pair(K_instance_dict, JDict(<<>>)), Pair(K_searchtags_dict, JDict(<<>>)) >>),
       JList(<< JStr(K_searchtags_dict), JStr(K_instance_dict) >>),
       JList(<<>>),
       JStr(K_searchtags_dict \o <<" ">> \o K_instance_dict),
       JStr(<<"x">>),
       JInt(5),
       JNone >>

\* Values a hand-written file may hold where save_plan writes the metadata.
ForeignMetadata(plan) ==
    << JDict(<< Pair(K_timestamp, JInt(SaveTime)),
                Pair(K_checksum, JStr(save_checksum(plan))) >>),
       JDict(<< Pair(K_timestamp, JInt(SaveTime)), Pair(K_checksum, JStr(<<"0">>)) >>),
       JDict(<< Pair(K_checksum, JStr(save_checksum(plan))) >>),
       JDict(<< Pair(K_timestamp, JInt(SaveTime)) >>),
       JList(<< JStr(K_checksum) >>),
       JInt(5) >>

\* Objects that are no mapping with entries.
ForeignTops ==
    << JList(<< JStr(K_metadata), JStr(K_plan) >>), JStr(K_plan), JInt(5), JNone >>

\* A mapping with the p-th plan (if with_plan) and the m-th metadata (if m > 0).
ForeignMapping(p, m, with_plan) ==
    JDict((IF with_plan THEN << Pair(K_plan, ForeignPlans[p]) >> ELSE <<>>)
          \o (IF m > 0 THEN << Pair(K_metadata, ForeignMetadata(ForeignPlans[p])[m]) >>
              ELSE <<>>))

\* load_plan, lines 850-853: the file named by --loadplan was written by
\* another hand.
foreign_plan ==
    /\ cpc = "new"
    /\ \/ \E i \in DOMAIN ForeignTops :
            /\ artifact' = ForeignTops[i]
            /\ file' = json_dumps(ForeignTops[i], FALSE)
       \/ \E p \in DOMAIN ForeignPlans, m \in 0 .. 6, with_plan \in BOOLEAN :
            /\ artifact' = ForeignMapping(p, m, with_plan)
            /\ file' = json_dumps(ForeignMapping(p, m, with_plan), FALSE)
    /\ cpc' = "foreign"
    /\ UNCHANGED <<plan_in, planSpan, tampered, loaded, runVars, selVars, hookVars>>

\* Timestamps another clock may have stored in place of SaveTime.
OtherTimes == {0, SaveTime + 1, 10 * SaveTime}

\* The object holds a metadata mapping with a timestamp.
HasTimestamp(obj) ==
    /\ obj.t = "dict"
    /\ HasKey(obj.v, K_metadata)
    /\ Get(obj.v, K_metadata).t = "dict"
    /\ HasKey(Get(obj.v, K_metadata).v, K_timestamp)

\* The object with another timestamp in its metadata and nothing else changed.
with_timestamp(obj, timestamp) ==
    JDict(SetItem(obj.v, K_metadata,
                  JDict(SetItem(Get(obj.v, K_metadata).v, K_timestamp, JInt(timestamp)))))

\* save_plan, lines 812-823: the file as it would be with another
\* metadata.timestamp, the plan and the checksum as they are.
restamp_plan ==
    /\ cpc \in {"saved", "foreign"}
    /\ \E timestamp \in OtherTimes :
        IF cpc = "saved"
        THEN file' = save_plan_text(plan_in.searchtags_dict, plan_in.instance_dict, timestamp)
        ELSE /\ HasTimestamp(artifact)
             /\ file' = json_dumps(with_timestamp(artifact, timestamp), FALSE)
    /\ cpc' = "restamped"
    /\ UNCHANGED <<plan_in, planSpan, tampered, artifact, loaded, runVars, selVars, hookVars>>

\* load_plan, lines 840-890.
load_plan ==
    /\ cpc \in {"saved", "tampered", "foreign", "restamped"}
    /\ loaded' = load_plan_result(file)
    /\ cpc' = CASE cpc = "foreign" -> "foreign_loaded"
                [] cpc = "restamped" -> "restamped_loaded"
                [] OTHER -> "loaded"
    /\ UNCHANGED <<plan_in, file, planSpan, tampered, artifact, runVars, selVars, hookVars>>

CodecNext == save_plan \/ tamper_plan \/ foreign_plan \/ load_plan

StampNext == save_plan \/ foreign_plan \/ restamp_plan \/ load_plan

\* The codec at rest, while an invocation of main() is followed.
CodecIdle ==
    /\ cpc = "new"
    /\ plan_in = NoPlan
    /\ file = NoFile
    /\ planSpan = <<0, 0>>
    /\ tampered = 0
    /\ artifact = JNone
    /\ loaded = Exit("not_called")

NoAnswer == <<"None">>
NoHistory == [discovered |-> <<>>, prompts |-> {}, queries |-> {}]

\* The interactive acquisition at rest, while something else is followed.
SelectIdle ==
    /\ spc = "idle"
    /\ found = <<>>
    /\ prev = <<>>
    /\ answer = NoAnswer
    /\ block_index = 0
    /\ history = NoHistory

NoResults ==
    [returned |-> FALSE, resource_validation_failed |-> 0,
     resource_failed_reasons |-> <<>>]

\* The webhook validator at rest, while something else is followed.
HookIdle ==
    /\ hpc = "idle"
    /\ pipeline_config = <<>>
    /\ webhooks_dict = <<>>
    /\ results = NoResults

Init == RunInit /\ CodecIdle /\ SelectIdle /\ HookIdle

\* The invocation at rest, while save_plan and load_plan are followed.
RunIdle ==
    /\ RunInit
    /\ args = [loadplan |-> FALSE, saveplan |-> TRUE, switchvols |-> FALSE]

CodecStart == CodecInit /\ RunIdle /\ SelectIdle /\ HookIdle

Terminal == {"done", "failed", "cancelled", "saved", "interrupted"}

\* log_output, lines 26-28, and save_plan, lines 834-837: the exit status of
\* a process that ended at the position; every other end returns from main.
exit_status(position) == IF position = "failed" THEN 1 ELSE 0

\* The entry appended to the call log when a gateway call is issued: the
\* operation, the block device the loop is at, the volume or instance acted
\* on, the keyword arguments sent, the response and the wait that follows.
Call(op, dev, vol, request, response) ==
    [op |-> op, dev |-> dev, vol |-> vol, request |-> request, res |-> response,
     waited |-> IF validate_response(response) THEN "pending" ELSE "none"]

\* The call log with the result of the wait recorded on the last call.
Waited(result) ==
    [calls EXCEPT ![Len(calls)] = [@ EXCEPT !.waited = result]]

----------------------------------------------------------------------------
(* main(): argument checks, plan acquisition, save or confirm.             *)

\* The tag filters a run may work with, as process_searchtags returns them
\* (lines 57-59): at least one entry, in command line order.
SearchTagDicts ==
    { << [Key |-> "Env", Value |-> <<"live">>] >>,
      << [Key |-> "Env", Value |-> <<"live">>], [Key |-> "Name", Value |-> <<"web">>] >> }

\* main, lines 1138-1139: --saveplan and --loadplan are mutually exclusive.
\* Lines 1141-1144: without --loadplan, --searchtags is required and
\* process_searchtags makes the tag filters of it.
main_args ==
    /\ pc = "start"
    /\ IF args.saveplan /\ args.loadplan
       THEN /\ pc' = "failed"
            /\ UNCHANGED searchtags_dict
       ELSE IF args.loadplan
       THEN /\ pc' = "acquire"
            /\ UNCHANGED searchtags_dict
       ELSE \/ /\ pc' = "failed"
               /\ UNCHANGED searchtags_dict
            \/ /\ pc' = "acquire"
               /\ searchtags_dict' \in SearchTagDicts
    /\ UNCHANGED <<codecVars, hookVars, selVars, rerun, plan_read, loadVars, args, attempts, instance_dict, idx, confirmed, calls, Env>>

\* The value SwitchVols may take for the acquired plan: recorded in the file
\* in load mode, forced by --switchvols, or else the operator's answer.
SwitchChoices ==
    IF args.loadplan THEN BOOLEAN
    ELSE IF args.switchvols THEN {TRUE}
    ELSE BOOLEAN

\* main, lines 1175-1194: the plan is discovered and narrowed by the operator
\* (followed step by step in SelectSpec).  Only read-only queries are made.
\* Any fatal error on the way (no instance, no snapshot) ends the process.
main_acquire ==
    /\ pc = "acquire"
    /\ ~args.loadplan
    /\ \/ /\ \E sel \in DeviceSelections, sw \in SwitchChoices :
                instance_dict' =
                    [BlockDevs |-> [k \in 1 .. Len(sel) |-> BlockDev(sel[k])],
                     SwitchVols |-> sw]
          /\ pc' = "decide"
       \/ /\ pc' = "failed"
          /\ UNCHANGED instance_dict
    /\ UNCHANGED <<codecVars, hookVars, selVars, rerun, plan_read, loadVars, args, searchtags_dict, attempts, idx, confirmed, calls, Env>>

\* A load in which --switchvols sets SwitchVols as it does in an interactive run.
loaded_switchvols_Overridden(recorded) == args.switchvols \/ recorded

\* main, lines 1170-1174: in load mode SwitchVols is what the plan file
\* records; lines 1189-1193 are in the other branch.
loaded_switchvols(recorded) == recorded

\* Variant of AfterLoad in which a failed load_plan does not end the process.
AfterLoad_Continues(outcome) == "verify_instance"

\* main, line 1171: load_plan returns the plan, or sys.exit / an exception
\* leaves main (only KeyboardInterrupt is caught there).
AfterLoad(outcome) == IF outcome = "loaded" THEN "verify_instance" ELSE "failed"

\* main, lines 1170-1171: load_plan on the file named by --loadplan.  The
\* outcomes are those of load_plan_result (followed on the text in CodecSpec).
main_load_plan ==
    /\ pc = "acquire"
    /\ args.loadplan
    /\ \E outcome \in LoadFailures \cup {"loaded"} :
        /\ load_outcome' = outcome
        /\ pc' = AfterLoad(outcome)
        /\ IF outcome = "loaded"
           THEN /\ \E sel \in DeviceSelections, recorded \in SwitchChoices :
                    /\ plan_read' = [read |-> TRUE, SwitchVols |-> recorded]
                    /\ instance_dict' =
                        [BlockDevs |-> [k \in 1 .. Len(sel) |-> BlockDev(sel[k])],
                         SwitchVols |-> loaded_switchvols(recorded)]
                /\ searchtags_dict' \in SearchTagDicts
           ELSE UNCHANGED <<instance_dict, searchtags_dict, plan_read>>
    /\ UNCHANGED <<codecVars, hookVars, selVars, rerun, verified, args, attempts, idx, confirmed, calls, Env>>

----------------------------------------------------------------------------
(* revalidate_loaded_plan and verify_instance / _volume / _snapshot.       *)

\* revalidate_loaded_plan, lines 1059-1062.
instance_metadata == [Name |-> RecordedName, IPAddress |-> RecordedIP]

\* revalidate_loaded_plan, lines 1068-1077: the keys, in insertion order.
volume_metadata_keys(block_dev) ==
    <<"DeviceName", "AvailabilityZone", "Encrypted", "Size", "VolumeType">>
        \o (IF RecordedVolume(block_dev.VolumeId).Encrypted THEN <<"KmsKeyId">> ELSE <<>>)

\* revalidate_loaded_plan, lines 1068-1077: the value of each key.
volume_metadata(block_dev) ==
    [key \in {"DeviceName", "AvailabilityZone", "Encrypted", "Size", "VolumeType",
              "KmsKeyId"} |->
        IF key = "DeviceName" THEN block_dev.DeviceName
        ELSE RecordedVolume(block_dev.VolumeId)[key]]

\* revalidate_loaded_plan, line 1083.
snapshot_metadata == [StartTime |-> format_StartTime([day |-> RecordedDay])]

\* What a verify function did: it returned, or the process ended.
Verified == [result |-> "verified", key |-> ""]
Mismatch(key) == [result |-> "mismatch", key |-> key]
NotFound == [result |-> "not_found", key |-> ""]
HttpError == [result |-> "http_error", key |-> ""]
IndexError == [result |-> "IndexError", key |-> ""]

\* verify_instance, lines 917-920: the value of the last tag named Name.
RECURSIVE instance_name_of(_, _, _)
instance_name_of(tags, i, name) ==
    IF i > Len(tags) THEN name
    ELSE instance_name_of(tags, i + 1,
                          IF tags[i].Key = "Name" THEN tags[i].Value ELSE name)

\* verify_instance, lines 915-939: the checks on one instance.
verify_instance_checks(plan_instance_metadata, instance) ==
    IF plan_instance_metadata.Name # instance_name_of(instance.Tags, 1, "")
    THEN Mismatch("Name")
    ELSE IF plan_instance_metadata.IPAddress # instance.PrivateIpAddress
    THEN Mismatch("IPAddress")
    ELSE Verified

\* verify_instance, lines 913-946: the loop over the reservations.
RECURSIVE verify_reservations(_, _, _)
verify_reservations(plan_instance_metadata, reservations, r) ==
    IF r > Len(reservations) THEN Verified
    ELSE IF Len(reservations[r].Instances) = 1
    THEN LET checked == verify_instance_checks(plan_instance_metadata,
                                               reservations[r].Instances[1])
         IN  IF checked # Verified THEN checked
             ELSE verify_reservations(plan_instance_metadata, reservations, r + 1)
    ELSE NotFound

\* verify_instance, lines 893-946.
verify_instance(plan_instance_metadata, response) ==
    IF ~validate_response(response.status) THEN HttpError
    ELSE verify_reservations(plan_instance_metadata, response.Reservations, 1)

\* verify_volume, lines 969-990: the loop over the keys of the metadata.
RECURSIVE verify_volume_keys(_, _, _, _)
verify_volume_keys(keys, k, plan_volume_metadata, volume) ==
    IF k > Len(keys) THEN Verified
    ELSE IF keys[k] = "DeviceName"
    THEN IF volume.Attachments = <<>> THEN IndexError
         ELSE IF plan_volume_metadata[keys[k]] # volume.Attachments[1].Device
         THEN Mismatch(keys[k])
         ELSE verify_volume_keys(keys, k + 1, plan_volume_metadata, volume)
    ELSE IF plan_volume_metadata[keys[k]] # volume[keys[k]] THEN Mismatch(keys[k])
    ELSE verify_volume_keys(keys, k + 1, plan_volume_metadata, volume)

\* Variant of verify_volume that does not look at the attachment.
verify_volume_IgnoresDevice(keys, plan_volume_metadata, response) ==
    IF ~validate_response(response.status) THEN HttpError
    ELSE IF Len(response.Volumes) = 1
    THEN verify_volume_keys(SelectSeq(keys, LAMBDA key : key # "DeviceName"), 1,
                            plan_volume_metadata, response.Volumes[1])
    ELSE NotFound

\* Variant of verify_volume that does not compare the size.
verify_volume_IgnoresSize(keys, plan_volume_metadata, response) ==
    IF ~validate_response(response.status) THEN HttpError
    ELSE IF Len(response.Volumes) = 1
    THEN verify_volume_keys(SelectSeq(keys, LAMBDA key : key # "Size"), 1,
                            plan_volume_metadata, response.Volumes[1])
    ELSE NotFound

\* verify_volume, lines 949-997.
verify_volume(keys, plan_volume_metadata, response) ==
    IF ~validate_response(response.status) THEN HttpError
    ELSE IF Len(response.Volumes) = 1
    THEN verify_volume_keys(keys, 1, plan_volume_metadata, response.Volumes[1])
    ELSE NotFound

\* verify_snapshot, lines 1000-1047 (the metadata holds the one key StartTime).
verify_snapshot(plan_snapshot_metadata, response) ==
    IF ~validate_response(response.status) THEN HttpError
    ELSE IF Len(response.Snapshots) = 1
    THEN IF plan_snapshot_metadata.StartTime
                # format_StartTime(response.Snapshots[1].StartTime)
         THEN Mismatch("StartTime")
         ELSE Verified
    ELSE NotFound

\* What describe_instances(InstanceIds=[id]) may answer.
LiveInstances ==
    [Tags : {<<>>,
             <<[Key |-> "Name", Value |-> RecordedName]>>,
             <<[Key |-> "Name", Value |-> "db"]>>,
             <<[Key |-> "Name", Value |-> "db"], [Key |-> "Name", Value |-> RecordedName]>>,
             <<[Key |-> "Env", Value |-> RecordedName]>>},
     PrivateIpAddress : {RecordedIP, "10.0.0.9"}]
InstanceResponses ==
    {[status |-> "error", Reservations |-> <<>>]}
        \cup {[status |-> "ok", Reservations |-> rs] :
                rs \in {<<>>, <<[Instances |-> <<>>]>>}
                        \cup {<<[Instances |-> <<i>>]>> : i \in LiveInstances}}

\* What describe_volumes(VolumeIds=[id]) may answer for a volume of the plan;
\* the volume of the first device may have moved to another instance.
OtherDevice == <<"dev", 0>>
OtherInstance == <<"other instance">>
LiveVolumes(block_dev) ==
    {[Attachments |-> at, AvailabilityZone |-> az, Encrypted |-> enc, Size |-> size,
      VolumeType |-> type, KmsKeyId |-> IF enc THEN kms ELSE ""] :
        at \in {<<>>,
                <<[Device |-> block_dev.DeviceName, InstanceId |-> TheInstance]>>,
                <<[Device |-> OtherDevice, InstanceId |-> TheInstance]>>}
               \cup (IF block_dev.DeviceName = DevName(1)
                     THEN {<<[Device |-> block_dev.DeviceName,
                              InstanceId |-> OtherInstance]>>}
                     ELSE {}),
        az \in {"az1", "az2"}, enc \in BOOLEAN, size \in {8, 9},
        type \in {"gp3", "io1"}, kms \in {"key1", "key2"}}
VolumeResponses(block_dev) ==
    {[status |-> "error", Volumes |-> <<>>], [status |-> "ok", Volumes |-> <<>>]}
        \cup {[status |-> "ok", Volumes |-> <<v>>] : v \in LiveVolumes(block_dev)}

\* What describe_snapshots(SnapshotIds=[id]) may answer.
SnapshotResponses ==
    {[status |-> "error", Snapshots |-> <<>>], [status |-> "ok", Snapshots |-> <<>>]}
        \cup {[status |-> "ok", Snapshots |-> <<[StartTime |-> [day |-> d]]>>] :
                d \in {RecordedDay, RecordedDay + 1}}

\* Variant of AfterVerify in which a failed verification does not end the process.
AfterVerify_Continues(outcome, next) == next

\* verify_instance / _volume / _snapshot: sys.exit (or the exception) leaves
\* main; a verification that returns lets revalidate_loaded_plan go on.
AfterVerify(outcome, next) == IF outcome = Verified THEN next ELSE "failed"

\* The entry a lookup leaves in the log.
Lookup(kind, dev, response, outcome) ==
    [kind |-> kind, dev |-> dev, response |-> response, outcome |-> outcome]

\* revalidate_loaded_plan, line 1063.
revalidate_instance ==
    /\ pc = "verify_instance"
    /\ \E response \in InstanceResponses :
        LET outcome == verify_instance(instance_metadata, response)
        IN  /\ verified' = Append(verified, Lookup("instance", 0, response, outcome))
            /\ pc' = AfterVerify(outcome, "verify_volume")
    /\ idx' = 1
    /\ UNCHANGED <<codecVars, hookVars, selVars, rerun, plan_read, load_outcome, args, searchtags_dict, attempts, instance_dict, confirmed,
                   calls, Env>>

\* revalidate_loaded_plan, lines 1066-1079.
revalidate_volume ==
    /\ pc = "verify_volume"
    /\ LET block_dev == instance_dict.BlockDevs[idx]
       IN  \E response \in VolumeResponses(block_dev) :
            LET outcome == verify_volume(volume_metadata_keys(block_dev),
                                         volume_metadata(block_dev), response)
            IN  /\ verified' = Append(verified, Lookup("volume", idx, response, outcome))
                /\ pc' = AfterVerify(outcome, "verify_snapshot")
    /\ UNCHANGED <<codecVars, hookVars, selVars, rerun, plan_read, load_outcome, args, searchtags_dict, attempts, instance_dict, idx,
                   confirmed, calls, Env>>

\* revalidate_loaded_plan, lines 1082-1086, and the return after the last device.
revalidate_snapshot ==
    /\ pc = "verify_snapshot"
    /\ \E response \in SnapshotResponses :
        LET outcome == verify_snapshot(snapshot_metadata, response)
        IN  /\ verified' = Append(verified, Lookup("snapshot", idx, response, outcome))
            /\ pc' = AfterVerify(outcome, IF idx < NDevs THEN "verify_volume" ELSE "decide")
            /\ idx' = IF idx < NDevs THEN idx + 1 ELSE idx
    /\ UNCHANGED <<codecVars, hookVars, selVars, rerun, plan_read, load_outcome, args, searchtags_dict, attempts, instance_dict, confirmed,
                   calls, Env>>

revalidate_loaded_plan == revalidate_instance \/ revalidate_volume \/ revalidate_snapshot

\* A run that goes on to the restore once the plan is written.
main_saveplan_ThenRestores ==
    /\ pc = "decide"
    /\ args.saveplan
    /\ \/ pc' = "create_call" /\ idx' = 1
       \/ pc' = "failed" /\ idx' = idx
    /\ UNCHANGED <<codecVars, hookVars, selVars, rerun, plan_read, loadVars, args, searchtags_dict, attempts, instance_dict, confirmed, calls, Env>>

\* main, lines 1196-1197: with --saveplan the plan is written and nothing
\* else happens; save_plan exits with the error when the write fails.
main_saveplan ==
    /\ pc = "decide"
    /\ args.saveplan
    /\ pc' \in {"saved", "failed"}
    /\ UNCHANGED <<codecVars, hookVars, selVars, rerun, plan_read, loadVars, args, searchtags_dict, attempts, instance_dict, idx, confirmed, calls, Env>>

\* A confirmation prompt that takes every answer but "yes"/"no" spellings apart
\* wrongly: "no" proceeds.
get_user_confirmation_NoProceeds(answer_raw) ==
    CASE answer_raw \in {"yes", "no"} -> "True"
      [] OTHER -> "again"

\* get_user_confirmation: the value returned for an answer, "again" when the
\* prompt repeats.
get_user_confirmation(answer_raw) ==
    CASE answer_raw = "yes" -> "True"
      [] answer_raw = "no" -> "False"
      [] OTHER -> "again"

Answers == {"yes", "no", "maybe"}

\* main, lines 1198-1204: the final confirmation.
main_confirm ==
    /\ pc = "decide"
    /\ ~args.saveplan
    /\ \E answer_raw \in Answers :
        LET r == get_user_confirmation(answer_raw)
        IN  \/ /\ r = "True"
               /\ confirmed' = answer_raw
               /\ pc' = "create_call"
               /\ idx' = 1
            \/ /\ r = "False"
               /\ confirmed' = answer_raw
               /\ pc' = "cancelled"
               /\ idx' = idx
            \/ /\ r = "again"
               /\ UNCHANGED <<pc, confirmed, idx>>
    /\ UNCHANGED <<codecVars, hookVars, selVars, rerun, plan_read, loadVars, args, searchtags_dict, attempts, instance_dict, calls, Env>>

\* An interrupt handler that starts the instance again before it leaves.
KeyboardInterrupt_Restarting ==
    /\ pc \notin Terminal
    /\ pc # "start"
    /\ pc' = "interrupted"
    /\ calls' = IF instState = "running" THEN calls
                ELSE Append(calls, [op |-> "start", dev |-> 0, vol |-> TheInstance,
                                    request |-> [InstanceIds |-> <<TheInstance>>],
                                    res |-> "ok", waited |-> "none"])
    /\ UNCHANGED <<codecVars, hookVars, selVars, rerun, plan_read, loadVars, args, searchtags_dict, attempts, instance_dict, idx, confirmed, Env>>

\* main, lines 1208-1210: CTRL+C anywhere inside the try block.
KeyboardInterrupt ==
    /\ pc \notin Terminal
    /\ pc # "start"
    /\ pc' = "interrupted"
    /\ UNCHANGED <<codecVars, hookVars, selVars, rerun, plan_read, loadVars, args, searchtags_dict, attempts, instance_dict, idx, confirmed, calls, Env>>

----------------------------------------------------------------------------
(* manage_restore_process and the gateway functions it calls.  Each        *)
(* function is a call (response checked by validate_response) followed by  *)
(* a waiter whose WaiterError is caught and printed.                       *)

\* A switch phase that runs whatever the plan says.
SwitchRequested_Always(instance) == TRUE

\* manage_restore_process, line 755: the switch phase runs for an instance
\* whose SwitchVols is set.
SwitchRequested(instance) == instance.SwitchVols

\* A tag list that leaves the tag filters of the plan out.
tags_list_Fixed(block_device, searchtags) ==
    << [Key |-> "DeviceName", Value |-> block_device.DeviceName],
       [Key |-> "Restored", Value |-> <<"true">>],
       [Key |-> "SourceSnapshot", Value |-> block_device.SnapshotData[1].SnapshotId] >>

\* restore_ebs_volume, lines 531-540: the tags of the new volume.
tags_list(block_device, searchtags) ==
    << [Key |-> "DeviceName", Value |-> block_device.DeviceName],
       [Key |-> "Restored", Value |-> <<"true">>],
       [Key |-> "SourceSnapshot", Value |-> block_device.SnapshotData[1].SnapshotId] >>
    \o [t \in 1 .. Len(searchtags) |->
            [Key |-> searchtags[t].Key, Value |-> searchtags[t].Value]]

\* A request that carries the recorded KmsKeyId whatever the device is.
create_volume_request_AlwaysKey(block_device, searchtags) ==
    [AvailabilityZone |-> block_device.AvailabilityZone,
     Encrypted |-> block_device.Encrypted,
     KmsKeyId |-> <<block_device.KmsKeyId>>,
     Size |-> block_device.Size,
     SnapshotId |-> block_device.SnapshotData[1].SnapshotId,
     VolumeType |-> block_device.VolumeType,
     Tags |-> tags_list(block_device, searchtags)]

\* restore_ebs_volume, lines 545-563: the keyword arguments of create_volume.
\* KmsKeyId holds the key when the argument is passed and nothing otherwise.
create_volume_request(block_device, searchtags) ==
    IF block_device.Encrypted
    THEN [AvailabilityZone |-> block_device.AvailabilityZone,
          Encrypted |-> block_device.Encrypted,
          KmsKeyId |-> <<block_device.KmsKeyId>>,
          Size |-> block_device.Size,
          SnapshotId |-> block_device.SnapshotData[1].SnapshotId,
          VolumeType |-> block_device.VolumeType,
          Tags |-> tags_list(block_device, searchtags)]
    ELSE [AvailabilityZone |-> block_device.AvailabilityZone,
          Encrypted |-> block_device.Encrypted,
          KmsKeyId |-> <<>>,
          Size |-> block_device.Size,
          SnapshotId |-> block_device.SnapshotData[1].SnapshotId,
          VolumeType |-> block_device.VolumeType,
          Tags |-> tags_list(block_device, searchtags)]

\* toggle_ec2_state, lines 603-605 and 632-634: the arguments of
\* start_instances and stop_instances.
toggle_request(instance_id) == [InstanceIds |-> <<instance_id>>]

\* detach_ebs_volume, lines 669-671: the arguments of detach_volume.
detach_volume_request(instance_id, volume_id, device_name) ==
    [Device |-> device_name, InstanceId |-> instance_id, VolumeId |-> volume_id]

\* An attach under the device name of the first block device of the plan.
attach_volume_request_FirstDevice(instance_id, new_volume_id, device_name) ==
    [Device |-> instance_dict.BlockDevs[1].DeviceName,
     InstanceId |-> instance_id, VolumeId |-> new_volume_id]

\* attach_ebs_volume, lines 709-711: the arguments of attach_volume.
attach_volume_request(instance_id, new_volume_id, device_name) ==
    [Device |-> device_name, InstanceId |-> instance_id, VolumeId |-> new_volume_id]

\* WaiterConfig MaxAttempts (lines 578, 614, 643, 683, 723): the polls a
\* waiter makes at most.  The functions default it to 40.
wait_attempts == 2

\* The positions at which a waiter is polling.
WaitPositions == {"create_wait", "stop_wait", "detach_wait", "attach_wait", "start_wait"}

\* A waiter that starts its count again when the budget is spent.
polls_after_Restarting(n) == IF n + 1 < wait_attempts THEN {n + 1} ELSE {0}

\* The count of polls after one more poll without a verdict, if the budget
\* allows one: the last poll the budget allows gives the verdict.
polls_after(n) == IF n + 1 < wait_attempts THEN {n + 1} ELSE {}

\* waiter.wait with WaiterConfig Delay and MaxAttempts: a poll that finds
\* neither the awaited state nor a failure, followed by the delay.
waiter_poll ==
    /\ pc \in WaitPositions
    /\ \E n \in polls_after(attempts) : attempts' = n
    /\ UNCHANGED <<codecVars, hookVars, selVars, rerun, plan_read, loadVars, pc, args, searchtags_dict, instance_dict, idx, confirmed, calls, Env>>

\* restore_ebs_volume, lines 545-566: create_volume and validate_response.
restore_ebs_volume_call ==
    /\ pc = "create_call"
    /\ \E response \in Responses :
        IF validate_response(response)
        THEN /\ calls' = Append(calls, Call("create", idx, NewVol(idx), create_volume_request(instance_dict.BlockDevs[idx], searchtags_dict), response))
             /\ volumes' = volumes \cup {NewVol(idx)}
             /\ volState' = [volState EXCEPT ![NewVol(idx)] = "creating"]
             /\ pc' = "create_wait"
        ELSE /\ calls' = Append(calls, Call("create", idx, None, create_volume_request(instance_dict.BlockDevs[idx], searchtags_dict), response))
             /\ pc' = "failed"
             /\ UNCHANGED <<volumes, volState>>
    /\ UNCHANGED <<codecVars, hookVars, selVars, rerun, plan_read, loadVars, args, searchtags_dict, attempts, instance_dict, idx, confirmed, instState, attachedAs>>

\* restore_ebs_volume, lines 570-590: the value returned after the wait.  The
\* except branch prints and falls off the end of the function.
restore_ebs_volume_result(new_volume_id, waited) ==
    IF waited = "ok" THEN new_volume_id ELSE None

\* A loop that makes the call again for a device whose wait failed.
next_block_device_Retrying(index, waited) ==
    IF waited = "WaiterError" THEN index ELSE index + 1

\* manage_restore_process, lines 749-753: the for loop goes on to the next
\* block device whatever restore_ebs_volume returned.
next_block_device(index, waited) == index + 1

\* restore_ebs_volume, lines 570-590, and manage_restore_process, lines
\* 749-756: the wait, the update of the block device and the loop step.
restore_ebs_volume_wait ==
    /\ pc = "create_wait"
    /\ \E waited \in WaitResults :
        /\ calls' = Waited(waited)
        /\ volState' = IF waited = "ok"
                       THEN [volState EXCEPT ![NewVol(idx)] = "available"]
                       ELSE volState
        /\ instance_dict' =
             [instance_dict EXCEPT !.BlockDevs[idx].NewVolumeId =
                 restore_ebs_volume_result(NewVol(idx), waited)]
        /\ IF next_block_device(idx, waited) <= NDevs
           THEN /\ idx' = next_block_device(idx, waited)
                /\ pc' = "create_call"
           ELSE /\ idx' = idx
                /\ pc' = IF SwitchRequested(instance_dict) THEN "stop_call" ELSE "done"
    /\ attempts' = 0
    /\ UNCHANGED <<codecVars, hookVars, selVars, rerun, plan_read, loadVars, args, searchtags_dict, confirmed, instState, volumes, attachedAs>>

\* toggle_ec2_state(state=0), lines 632-634: stop_instances.
toggle_ec2_state_stop_call ==
    /\ pc = "stop_call"
    /\ \E response \in Responses :
        /\ calls' = Append(calls, Call("stop", 0, TheInstance, toggle_request(TheInstance), response))
        /\ IF validate_response(response)
           THEN /\ instState' = "stopping"
                /\ pc' = "stop_wait"
           ELSE /\ pc' = "failed"
                /\ UNCHANGED instState
    /\ UNCHANGED <<codecVars, hookVars, selVars, rerun, plan_read, loadVars, args, searchtags_dict, attempts, instance_dict, idx, confirmed, volumes, volState, attachedAs>>

\* toggle_ec2_state(state=0), lines 638-655: the instance_stopped waiter.
toggle_ec2_state_stop_wait ==
    /\ pc = "stop_wait"
    /\ \E waited \in WaitResults :
        /\ calls' = Waited(waited)
        /\ instState' = IF waited = "ok" THEN "stopped" ELSE instState
    /\ idx' = 1
    /\ pc' = "detach_call"
    /\ attempts' = 0
    /\ UNCHANGED <<codecVars, hookVars, selVars, rerun, plan_read, loadVars, args, searchtags_dict, instance_dict, confirmed, volumes, volState, attachedAs>>

\* detach_ebs_volume, lines 669-673: detach_volume of the original volume.
detach_ebs_volume_call ==
    /\ pc = "detach_call"
    /\ LET volume_id == instance_dict.BlockDevs[idx].VolumeId
           device_name == instance_dict.BlockDevs[idx].DeviceName
       IN  \E response \in Responses :
            /\ calls' = Append(calls, Call("detach", idx, volume_id,
                                     detach_volume_request(TheInstance, volume_id, device_name), response))
            /\ IF validate_response(response)
               THEN /\ volState' = [volState EXCEPT ![volume_id] = "detaching"]
                    /\ pc' = "detach_wait"
               ELSE /\ pc' = "failed"
                    /\ UNCHANGED volState
    /\ UNCHANGED <<codecVars, hookVars, selVars, rerun, plan_read, loadVars, args, searchtags_dict, attempts, instance_dict, idx, confirmed, instState, volumes, attachedAs>>

\* A detach that disposes of the volume it detached.
VolumesAfterDetach_Deleting(volume_id) == volumes \ {volume_id}

\* The live volumes once a detach has completed: the volume is kept.
VolumesAfterDetach(volume_id) == volumes

\* detach_ebs_volume, lines 677-695: the volume_available waiter.
detach_ebs_volume_wait ==
    /\ pc = "detach_wait"
    /\ LET volume_id == instance_dict.BlockDevs[idx].VolumeId
       IN  \E waited \in WaitResults :
            /\ calls' = Waited(waited)
            /\ IF waited = "ok"
               THEN /\ volState' = [volState EXCEPT ![volume_id] = "available"]
                    /\ attachedAs' = [attachedAs EXCEPT ![volume_id] = None]
                    /\ volumes' = VolumesAfterDetach(volume_id)
               ELSE UNCHANGED <<volState, attachedAs, volumes>>
    /\ pc' = "attach_call"
    /\ attempts' = 0
    /\ UNCHANGED <<codecVars, hookVars, selVars, rerun, plan_read, loadVars, args, searchtags_dict, instance_dict, idx, confirmed, instState>>

\* attach_ebs_volume, lines 709-713: attach_volume of the new volume.  With
\* new_volume_id None the client refuses to build the request and raises.
attach_ebs_volume_call ==
    /\ pc = "attach_call"
    /\ LET new_volume_id == instance_dict.BlockDevs[idx].NewVolumeId
           device_name == instance_dict.BlockDevs[idx].DeviceName
       IN  \E response \in (IF new_volume_id = None THEN {"error"} ELSE Responses) :
            /\ calls' = Append(calls, Call("attach", idx, new_volume_id,
                                     attach_volume_request(TheInstance, new_volume_id, device_name), response))
            /\ IF validate_response(response)
               THEN /\ volState' = [volState EXCEPT ![new_volume_id] = "attaching"]
                    /\ pc' = "attach_wait"
               ELSE /\ pc' = "failed"
                    /\ UNCHANGED volState
    /\ UNCHANGED <<codecVars, hookVars, selVars, rerun, plan_read, loadVars, args, searchtags_dict, attempts, instance_dict, idx, confirmed, instState, volumes, attachedAs>>

\* attach_ebs_volume, lines 717-737, and manage_restore_process, lines
\* 757-763: the volume_in_use waiter and the loop step.
attach_ebs_volume_wait ==
    /\ pc = "attach_wait"
    /\ LET new_volume_id == instance_dict.BlockDevs[idx].NewVolumeId
           device_name == instance_dict.BlockDevs[idx].DeviceName
       IN  \E waited \in WaitResults :
            /\ calls' = Waited(waited)
            /\ IF waited = "ok"
               THEN /\ volState' = [volState EXCEPT ![new_volume_id] = "in-use"]
                    /\ attachedAs' = [attachedAs EXCEPT ![new_volume_id] = device_name]
               ELSE UNCHANGED <<volState, attachedAs>>
    /\ IF idx < NDevs
       THEN /\ idx' = idx + 1
            /\ pc' = "detach_call"
       ELSE /\ idx' = idx
            /\ pc' = "start_call"
    /\ attempts' = 0
    /\ UNCHANGED <<codecVars, hookVars, selVars, rerun, plan_read, loadVars, args, searchtags_dict, instance_dict, confirmed, instState, volumes>>

\* toggle_ec2_state(state=1), lines 603-605: start_instances.
toggle_ec2_state_start_call ==
    /\ pc = "start_call"
    /\ \E response \in Responses :
        /\ calls' = Append(calls, Call("start", 0, TheInstance, toggle_request(TheInstance), response))
        /\ IF validate_response(response)
           THEN /\ instState' = "pending"
                /\ pc' = "start_wait"
           ELSE /\ pc' = "failed"
                /\ UNCHANGED instState
    /\ UNCHANGED <<codecVars, hookVars, selVars, rerun, plan_read, loadVars, args, searchtags_dict, attempts, instance_dict, idx, confirmed, volumes, volState, attachedAs>>

\* toggle_ec2_state(state=1), lines 609-626, and manage_restore_process,
\* lines 765-766: the instance_running waiter, then "Restore process completed."
toggle_ec2_state_start_wait ==
    /\ pc = "start_wait"
    /\ \E waited \in WaitResults :
        /\ calls' = Waited(waited)
        /\ instState' = IF waited = "ok" THEN "running" ELSE instState
    /\ pc' = "done"
    /\ attempts' = 0
    /\ UNCHANGED <<codecVars, hookVars, selVars, rerun, plan_read, loadVars, args, searchtags_dict, instance_dict, idx, confirmed, volumes, volState, attachedAs>>

manage_restore_process ==
    \/ restore_ebs_volume_call
    \/ restore_ebs_volume_wait
    \/ toggle_ec2_state_stop_call
    \/ toggle_ec2_state_stop_wait
    \/ detach_ebs_volume_call
    \/ detach_ebs_volume_wait
    \/ attach_ebs_volume_call
    \/ attach_ebs_volume_wait
    \/ toggle_ec2_state_start_call
    \/ toggle_ec2_state_start_wait
    \/ waiter_poll

Next ==
    \/ main_args
    \/ main_load_plan
    \/ revalidate_loaded_plan
    \/ main_acquire
    \/ main_saveplan
    \/ main_confirm
    \/ KeyboardInterrupt
    \/ manage_restore_process

Spec == Init /\ [][Next]_vars

----------------------------------------------------------------------------
(* A second invocation with --loadplan, on the plan the completed run      *)
(* worked with, against the live state that run left behind.               *)

\* What describe_instances answers for the instance of the plan: a run
\* changes neither its Name tag nor its private address.
describe_instances_live ==
    [status |-> "ok",
     Reservations |->
        << [Instances |-> << [Tags |-> <<[Key |-> "Name", Value |-> RecordedName]>>,
                              PrivateIpAddress |-> RecordedIP] >>] >>]

\* What describe_volumes answers for a volume in the live state.
describe_volumes_live(volume_id) ==
    [status |-> "ok",
     Volumes |->
        IF volume_id \in volumes
        THEN << [Attachments |->
                    IF attachedAs[volume_id] = None THEN <<>>
                    ELSE <<[Device |-> attachedAs[volume_id], InstanceId |-> TheInstance]>>,
                 AvailabilityZone |-> RecordedVolume(volume_id).AvailabilityZone,
                 Encrypted |-> RecordedVolume(volume_id).Encrypted,
                 Size |-> RecordedVolume(volume_id).Size,
                 VolumeType |-> RecordedVolume(volume_id).VolumeType,
                 KmsKeyId |-> RecordedVolume(volume_id).KmsKeyId] >>
        ELSE <<>>]

\* What describe_snapshots answers for the selected snapshot of a device.
describe_snapshots_live ==
    [status |-> "ok", Snapshots |-> <<[StartTime |-> [day |-> RecordedDay]]>>]

RerunUnchanged ==
    UNCHANGED <<codecVars, hookVars, selVars, loadVars, plan_read, pc, args, searchtags_dict,
                attempts, instance_dict, idx, confirmed, calls, Env>>

\* main, lines 1170-1171: the plan file is loaded again once the run is over.
rerun_load_plan ==
    /\ pc = "done"
    /\ rerun.pc = "idle"
    /\ rerun' = [rerun EXCEPT !.pc = "verify_instance"]
    /\ RerunUnchanged

\* revalidate_loaded_plan, line 1063, in the second invocation.
rerun_verify_instance ==
    /\ rerun.pc = "verify_instance"
    /\ LET outcome == verify_instance(instance_metadata, describe_instances_live)
       IN  rerun' = [pc |-> AfterVerify(outcome, "verify_volume"),
                     idx |-> 1,
                     verified |-> Append(rerun.verified,
                                    Lookup("instance", 0, describe_instances_live, outcome))]
    /\ RerunUnchanged

\* revalidate_loaded_plan, lines 1066-1079, in the second invocation.
rerun_verify_volume ==
    /\ rerun.pc = "verify_volume"
    /\ LET block_dev == instance_dict.BlockDevs[rerun.idx]
           response == describe_volumes_live(block_dev.VolumeId)
           outcome == verify_volume(volume_metadata_keys(block_dev),
                                    volume_metadata(block_dev), response)
       IN  rerun' = [pc |-> AfterVerify(outcome, "verify_snapshot"),
                     idx |-> rerun.idx,
                     verified |-> Append(rerun.verified,
                                    Lookup("volume", rerun.idx, response, outcome))]
    /\ RerunUnchanged

\* revalidate_loaded_plan, lines 1082-1086, in the second invocation.
rerun_verify_snapshot ==
    /\ rerun.pc = "verify_snapshot"
    /\ LET outcome == verify_snapshot(snapshot_metadata, describe_snapshots_live)
       IN  rerun' = [pc |-> AfterVerify(outcome, IF rerun.idx < NDevs THEN "verify_volume"
                                                                     ELSE "decide"),
                     idx |-> IF rerun.idx < NDevs THEN rerun.idx + 1 ELSE rerun.idx,
                     verified |-> Append(rerun.verified,
                                    Lookup("snapshot", rerun.idx, describe_snapshots_live,
                                           outcome))]
    /\ RerunUnchanged

rerun_loaded_plan ==
    \/ rerun_load_plan
    \/ rerun_verify_instance
    \/ rerun_verify_volume
    \/ rerun_verify_snapshot

RerunNext == Next \/ rerun_loaded_plan

\* An invocation followed, once it has completed, by the revalidation of a
\* second invocation on the same plan.
RerunSpec == Init /\ [][RerunNext]_vars

\* The steps the program takes by itself, the gateway and an operator who
\* answers included; KeyboardInterrupt may come or not.
Run ==
    \/ main_args
    \/ main_load_plan
    \/ revalidate_loaded_plan
    \/ main_acquire
    \/ main_saveplan
    \/ main_confirm
    \/ manage_restore_process

\* The invocation with a gateway that answers every call and poll and an
\* operator who does not leave a prompt unanswered for ever.
LiveSpec == Init /\ [][Next]_vars /\ WF_vars(Run)

CodecSpec == CodecStart /\ [][CodecNext]_vars

\* Artifacts that differ in the stored timestamp alone, and their load.
StampSpec == CodecStart /\ [][StampNext]_vars

----------------------------------------------------------------------------
(* Interactive acquisition of the plan: main, lines 1176-1194, and the     *)
(* prompt of get_user_confirmation.  instance_dict is the list found of    *)
(* its entries in insertion order; a key that an entry does not hold yet   *)
(* (VolumeData, SnapshotData, SwitchVols) is the empty list, a key that is *)
(* set holds its value (SwitchVols) or its items (SnapshotData).           *)

\* Bounds: instances a query returns, block devices of an instance,
\* snapshots found for a volume.
MaxInstances == 2
MaxSelDevs == 3
MaxSnaps == 3
\* Bound: max_results of query_ebs_snapshots (line 302), 5 in the source.
max_results == 2

InstanceId(j) == <<"i", j>>
InstanceName(j) == <<"web", j>>
InstanceIP(j) == <<"10.0.0.", j>>
VolumeOf(j, d) == <<"vol", j, d>>

\* One instance of a describe_instances response, with ndevs block devices;
\* it matched the tag filter and may or may not carry a Name tag as well.
DescribedInstance(j, ndevs, named) ==
    [InstanceId |-> InstanceId(j),
     PrivateIpAddress |-> InstanceIP(j),
     Tags |-> IF named
              THEN << [Key |-> "Env", Value |-> <<"live">>],
                      [Key |-> "Name", Value |-> InstanceName(j)] >>
              ELSE << [Key |-> "Env", Value |-> <<"live">>] >>,
     BlockDeviceMappings |->
        [d \in 1 .. ndevs |->
            [DeviceName |-> DevName(d), Ebs |-> [VolumeId |-> VolumeOf(j, d)]]]]

\* The instances of the reservations describe_instances may answer with.
\* A lone instance has any number of devices; of several, the j-th has j
\* and at most one of the first two has no Name tag.
InstancesResponses ==
    {<<>>}
    \cup {<<DescribedInstance(1, ndevs, TRUE)>> : ndevs \in 0 .. MaxSelDevs}
    \cup {<<DescribedInstance(1, 1, FALSE)>>}
    \cup {[j \in 1 .. k |->
                DescribedInstance(j, IF j <= MaxSelDevs THEN j ELSE MaxSelDevs,
                                  j \notin unnamed)] :
            k \in 2 .. MaxInstances, unnamed \in {{}, {1}, {2}}}

\* query_ec2_instances, lines 117-140: instance_name is assigned only under
\* the test of line 131 and is never reset, so after the j-th instance it
\* is the value of the last Name tag met so far, unbound when none was met.
RECURSIVE instance_name_after(_, _)
instance_name_after(instances, j) ==
    IF j = 0 THEN Unset
    ELSE instance_name_of(instances[j].Tags, 1,
                          instance_name_after(instances, j - 1))

\* query_ec2_instances, line 134: reading instance_name while it is unbound
\* raises UnboundLocalError, which nothing catches.
UnboundLocalError(instances) ==
    \E j \in 1 .. Len(instances) : instance_name_after(instances, j) = Unset

\* query_ec2_instances, lines 117-140: the entry made for each instance.
query_ec2_instances_result(instances) ==
    [j \in 1 .. Len(instances) |->
        [InstanceId |-> instances[j].InstanceId,
         Name |-> instance_name_after(instances, j),
         IPAddress |-> instances[j].PrivateIpAddress,
         BlockDevs |->
            [d \in 1 .. Len(instances[j].BlockDeviceMappings) |->
                [DeviceName |-> instances[j].BlockDeviceMappings[d].DeviceName,
                 VolumeId |-> instances[j].BlockDeviceMappings[d].Ebs.VolumeId,
                 VolumeData |-> <<>>,
                 SnapshotData |-> <<>>]],
         SwitchVols |-> <<>>]]

\* Lines the operator may type at a prompt.
RawAnswers ==
    { <<"0">>, <<"1">>, <<"2">>, <<"3">>, <<"-", "1">>, <<"+", "0">>,
      <<" ", "1", " ">>, <<"1", "_">>, <<"x">>, <<>>,
      <<"A">>, <<"a">>, <<"Y", "e", "S">>, <<"n", "o">>, <<"y">> }

MaxOf(S) == CHOOSE q \in S : \A r \in S : q >= r

\* str.strip() as int() applies it.
PyBlank == {" ", "\t", "\n", "\r"}
strip(s) ==
    LET solid == {p \in 1 .. Len(s) : s[p] \notin PyBlank}
    IN  IF solid = {} THEN <<>> ELSE SubSeq(s, MinOf(solid), MaxOf(solid))

ValueError == [ok |-> FALSE, value |-> 0]

\* int(text) for a text already stripped: an optional sign, then digits
\* that single underscores may separate.
int_of_stripped(t) ==
    LET signed == t # <<>> /\ t[1] \in {"+", "-"}
        body == IF signed THEN Tail(t) ELSE t
        wellformed ==
            /\ body # <<>>
            /\ \A p \in 1 .. Len(body) :
                \/ body[p] \in Digits
                \/ /\ body[p] = "_"
                   /\ At(body, p - 1) \in Digits
                   /\ At(body, p + 1) \in Digits
        digits == SelectSeq(body, LAMBDA c : c \in Digits)
        magnitude == DigitsValue(digits, Len(digits))
    IN  IF ~wellformed THEN ValueError
        ELSE [ok |-> TRUE,
              value |-> IF signed /\ t[1] = "-" THEN 0 - magnitude ELSE magnitude]

\* int(selection_raw), lines 167, 232, 398.
int(selection_raw) == int_of_stripped(strip(selection_raw))

UpperCase == <<"A", "B", "C", "D", "E", "F", "G", "H", "I", "J", "K", "L", "M",
               "N", "O", "P", "Q", "R", "S", "T", "U", "V", "W", "X", "Y", "Z">>
LowerCase == <<"a", "b", "c", "d", "e", "f", "g", "h", "i", "j", "k", "l", "m",
               "n", "o", "p", "q", "r", "s", "t", "u", "v", "w", "x", "y", "z">>

\* str.lower()
lower(s) ==
    [p \in 1 .. Len(s) |->
        IF \E u \in 1 .. 26 : UpperCase[u] = s[p]
        THEN LowerCase[CHOOSE u \in 1 .. 26 : UpperCase[u] = s[p]]
        ELSE s[p]]

\* An answer that counts as yes or no whenever it starts like one.
answer_word_Prefix(answer_raw) ==
    CASE At(lower(answer_raw), 1) = "y" -> "yes"
      [] At(lower(answer_raw), 1) = "n" -> "no"
      [] OTHER -> "maybe"

\* get_reattach_choice, lines 461-464, and get_user_confirmation, lines
\* 514-516: what answer_raw.lower() is compared with.
answer_word(answer_raw) ==
    CASE lower(answer_raw) = <<"y", "e", "s">> -> "yes"
      [] lower(answer_raw) = <<"n", "o">> -> "no"
      [] OTHER -> "maybe"

\* Lines 172, 241-245, 407: the range test on a selection among n entries.
in_range(selection_int, n) == 0 <= selection_int /\ selection_int <= n - 1

\* del list[index] (0-based); Python raises IndexError outside the list,
\* which none of the callers below can reach.
del_item(list, index) ==
    IF index < Len(list)
    THEN SubSeq(list, 1, index) \o SubSeq(list, index + 2, Len(list))
    ELSE list

\* for index in indexes: del list[index], from the k-th index on.
RECURSIVE del_each(_, _, _)
del_each(list, indexes, k) ==
    IF k > Len(indexes) THEN list
    ELSE del_each(del_item(list, indexes[k]), indexes, k + 1)

\* list.reverse()
reverse(list) == [k \in 1 .. Len(list) |-> list[Len(list) + 1 - k]]

\* The 0-based indexes of a list that satisfy Test, ascending.
IndexesWhere(n, Test(_)) ==
    SelectSeq([k \in 1 .. n |-> k - 1], Test)

\* An instance choice that reads the number typed as counting from one.
selected_instance_OneBased(entries, selection_int) ==
    entries[IF selection_int = 0 THEN 1 ELSE selection_int]

\* get_instance_choice, lines 176-179: the entry at the index typed.
selected_instance(entries, selection_int) ==
    entries[selection_int + 1]

\* get_volume_choice, lines 253-257: the list is enumerated while entries
\* are deleted from it; the iterator is at position index.
RECURSIVE del_while_enumerating(_, _, _)
del_while_enumerating(block_devs, index, selection_int) ==
    IF index >= Len(block_devs) THEN block_devs
    ELSE IF index # selection_int
         THEN del_while_enumerating(del_item(block_devs, index), index + 1,
                                    selection_int)
         ELSE del_while_enumerating(block_devs, index + 1, selection_int)

\* get_volume_data, lines 278-297: the data describe_volumes gives.
volume_data(volume_id) == <<RecordedVolume(volume_id)>>

\* The snapshots there are of a volume: the s-th was taken on day s, and
\* the gateway lists them in either order.
DescribedSnapshots(volume_id, count, newest_first) ==
    [s \in 1 .. count |->
        [SnapshotId |-> <<"snap", volume_id, IF newest_first THEN count + 1 - s ELSE s>>,
         StartTime |-> [day |-> IF newest_first THEN count + 1 - s ELSE s],
         VolumeId |-> volume_id]]

\* How many snapshots there are of a volume: none, one, as many as
\* max_results allows, or more.
SnapCounts == {0, 1, max_results, MaxSnaps}

RECURSIVE Flatten(_, _)
Flatten(lists, i) ==
    IF i > Len(lists) THEN <<>> ELSE lists[i] \o Flatten(lists, i + 1)

\* A query for every snapshot of the volume there is.
describe_snapshots_request_Unlimited(volume_id, limit) ==
    [Filters |-> << [Name |-> "volume-id", Values |-> <<volume_id>>] >>,
     OwnerIds |-> <<"self">>,
     MaxResults |-> MaxSnaps + 1]

\* query_ebs_snapshots, lines 317-321: the arguments of describe_snapshots.
describe_snapshots_request(volume_id, limit) ==
    [Filters |-> << [Name |-> "volume-id", Values |-> <<volume_id>>] >>,
     OwnerIds |-> <<"self">>,
     MaxResults |-> limit]

\* The gateway's answer to describe_snapshots (line 317): of the snapshots
\* there are, those of the volume in the filter, no more than MaxResults.
describe_snapshots(snapshots, request) ==
    LET matching == SelectSeq(snapshots,
                        LAMBDA snapshot : snapshot.VolumeId = request.Filters[1].Values[1])
    IN  SubSeq(matching, 1, IF Len(matching) < request.MaxResults
                            THEN Len(matching) ELSE request.MaxResults)

\* query_ebs_snapshots, lines 339-346.
snapshot_list(volume_id, snapshots) ==
    LET of_volume == SelectSeq(snapshots, LAMBDA snapshot : snapshot.VolumeId = volume_id)
    IN  [s \in 1 .. Len(of_volume) |->
            [SnapshotId |-> of_volume[s].SnapshotId,
             StartTime |-> format_StartTime(of_volume[s].StartTime)]]

\* query_ebs_snapshots, lines 323-350: a device after its snapshots were
\* looked up; untouched when there are none.
with_snapshots(block_device, snapshots) ==
    IF Len(snapshots) > 0
    THEN [block_device EXCEPT
            !.SnapshotData = snapshot_list(block_device.VolumeId, snapshots)]
    ELSE block_device

\* A pruning that deletes at the indexes in ascending order.
prune_Unreversed(block_devs, omit_indexes) ==
    del_each(block_devs, omit_indexes, 1)

\* query_ebs_snapshots, lines 352-355.
prune(block_devs, omit_indexes) ==
    del_each(block_devs, reverse(omit_indexes), 1)

\* query_ebs_snapshots, lines 309-355, on the devices of one instance.
query_ebs_snapshots_result(block_devs, responses) ==
    prune([b \in 1 .. Len(block_devs) |-> with_snapshots(block_devs[b], responses[b])],
          IndexesWhere(Len(block_devs), LAMBDA i : Len(responses[i + 1]) = 0))

\* A selection that marks the chosen snapshot itself for deletion.
snapshot_omit_indexes_Inverted(snapshot_data, selection_int) ==
    IndexesWhere(Len(snapshot_data), LAMBDA i : i = selection_int)

\* get_snapshot_choice, lines 416-420.
snapshot_omit_indexes(snapshot_data, selection_int) ==
    IndexesWhere(Len(snapshot_data), LAMBDA i : i # selection_int)

\* get_snapshot_choice, lines 422-427: each round of the enumeration deletes
\* at every omitted index; the iterator is at position snapshot_index.
RECURSIVE del_omitted(_, _, _)
del_omitted(snapshot_data, omit_indexes, snapshot_index) ==
    IF snapshot_index >= Len(snapshot_data) THEN snapshot_data
    ELSE del_omitted(del_each(snapshot_data, omit_indexes, 1), omit_indexes,
                     snapshot_index + 1)

\* What is remembered of a step: the function, the position and the plan it
\* started from, and what the gateway answered.
Step(op, response) ==
    [op |-> op, at |-> spc, plan |-> found, block_index |-> block_index,
     response |-> response]

\* The positions at which main waits for a line from the operator.
Prompts == {"get_instance_choice", "get_volume_choice", "get_snapshot_choice",
            "get_reattach_choice", "get_user_confirmation"}

\* The functions that query the gateway: lines 107, 278, 317.
Queries == {"query_ec2_instances", "get_volume_data", "query_ebs_snapshots"}

\* The history after function op has acted and main is at position.
After(op, position) ==
    [history EXCEPT !.prompts = @ \cup ({position} \cap Prompts),
                    !.queries = @ \cup ({op} \cap Queries)]

SelectInit ==
    /\ spc = "query_ec2_instances"
    /\ history = NoHistory
    /\ found = <<>>
    /\ block_index = 0
    /\ prev = [op |-> "main", at |-> "main", plan |-> <<>>, block_index |-> 0,
               response |-> <<>>]
    /\ answer = NoAnswer

\* Acquisition starts in an invocation without --loadplan.
SelectStart == SelectInit /\ RunInit /\ ~args.loadplan /\ CodecIdle /\ HookIdle

SelectTerminal == {"failed", "saved", "execute", "cancelled", "interrupted"}

\* A discovery that hands an empty result on to the device choice.
AfterDiscovery_GoesOn(instances_num) ==
    IF instances_num > 1 THEN "get_instance_choice" ELSE "get_volume_choice"

\* query_ec2_instances, lines 142-148, and main, lines 1178-1181: no instance
\* is fatal, several are chosen from, one goes on to the device choice.
AfterDiscovery(instances_num) ==
    IF instances_num = 0 THEN "failed"
    ELSE IF instances_num > 1 THEN "get_instance_choice"
    ELSE "get_volume_choice"

\* main, lines 1176-1178, and query_ec2_instances, lines 90-148.
query_ec2_instances ==
    /\ spc = "query_ec2_instances"
    /\ \E instances \in InstancesResponses :
        /\ found' = IF UnboundLocalError(instances) THEN found
                     ELSE query_ec2_instances_result(instances)
        /\ spc' = IF UnboundLocalError(instances) THEN "failed"
                   ELSE AfterDiscovery(Len(found'))
        /\ prev' = Step(IF UnboundLocalError(instances)
                         THEN "UnboundLocalError" ELSE "query_ec2_instances",
                         instances)
        /\ history' = [After("query_ec2_instances", spc') EXCEPT
                            !.discovered = [j \in 1 .. Len(instances) |->
                                        Len(instances[j].BlockDeviceMappings)]]
    /\ answer' = NoAnswer
    /\ UNCHANGED <<block_index, runVars, codecVars, hookVars>>

\* get_instance_choice, lines 164-183: one line read at the prompt.
get_instance_choice ==
    /\ spc = "get_instance_choice"
    /\ \E selection_raw \in RawAnswers :
        /\ answer' = selection_raw
        /\ IF int(selection_raw).ok
              /\ in_range(int(selection_raw).value, Len(found))
           THEN /\ found' = <<selected_instance(found, int(selection_raw).value)>>
                /\ spc' = "get_volume_choice"
           ELSE UNCHANGED <<found, spc>>
    /\ prev' = Step("get_instance_choice", <<>>)
    /\ history' = After("get_instance_choice", spc')
    /\ UNCHANGED <<block_index, runVars, codecVars, hookVars>>

\* get_volume_choice, lines 224-259: one line read at the prompt.
get_volume_choice ==
    /\ spc = "get_volume_choice"
    /\ \E selection_raw \in RawAnswers :
        /\ answer' = selection_raw
        /\ IF selection_raw \in {<<"A">>, <<"a">>}
           THEN /\ found' = found
                /\ spc' = "get_volume_data"
           ELSE IF int(selection_raw).ok
                   /\ in_range(int(selection_raw).value, Len(found[1].BlockDevs))
           THEN /\ found' = [found EXCEPT ![1].BlockDevs =
                                del_while_enumerating(@, 0, int(selection_raw).value)]
                /\ spc' = "get_volume_data"
           ELSE UNCHANGED <<found, spc>>
    /\ prev' = Step("get_volume_choice", <<>>)
    /\ history' = After("get_volume_choice", spc')
    /\ UNCHANGED <<block_index, runVars, codecVars, hookVars>>

\* get_volume_data, lines 262-299.
get_volume_data ==
    /\ spc = "get_volume_data"
    /\ found' = [j \in 1 .. Len(found) |->
                    [found[j] EXCEPT !.BlockDevs =
                        [b \in 1 .. Len(found[j].BlockDevs) |->
                            [found[j].BlockDevs[b] EXCEPT !.VolumeData =
                                volume_data(found[j].BlockDevs[b].VolumeId)]]]]
    /\ spc' = "query_ebs_snapshots"
    /\ prev' = Step("get_volume_data", <<>>)
    /\ history' = After("get_volume_data", spc')
    /\ answer' = NoAnswer
    /\ UNCHANGED <<block_index, runVars, codecVars, hookVars>>

\* query_ebs_snapshots, lines 302-362: every device is looked up, devices
\* without snapshots are deleted, and no device left is fatal.
query_ebs_snapshots ==
    /\ spc = "query_ebs_snapshots"
    /\ \E counts \in [1 .. Len(found[1].BlockDevs) -> SnapCounts], newest_first \in BOOLEAN :
        LET snapshots == Flatten([b \in 1 .. Len(found[1].BlockDevs) |->
                            DescribedSnapshots(found[1].BlockDevs[b].VolumeId, counts[b],
                                               newest_first)], 1)
            responses == [b \in 1 .. Len(found[1].BlockDevs) |->
                            describe_snapshots(snapshots,
                                describe_snapshots_request(found[1].BlockDevs[b].VolumeId,
                                                           max_results))]
        IN  /\ found' = [found EXCEPT ![1].BlockDevs =
                            query_ebs_snapshots_result(@, responses)]
            /\ prev' = Step("query_ebs_snapshots", responses)
    /\ spc' = IF Len(found'[1].BlockDevs) = 0 THEN "failed" ELSE "get_snapshot_choice"
    /\ history' = After("query_ebs_snapshots", spc')
    /\ block_index' = IF Len(found'[1].BlockDevs) = 0 THEN 0 ELSE 1
    /\ answer' = NoAnswer
    /\ UNCHANGED <<runVars, codecVars, hookVars>>

\* main, lines 1196-1199: where main goes once SwitchVols is set.
AfterSwitch == IF args.saveplan THEN "save_plan" ELSE "get_user_confirmation"

\* A main that shows the switch prompt whatever the command line says.
AfterSnapshots_AlwaysAsks == "get_reattach_choice"

\* main, lines 1189-1193: where main goes after get_snapshot_choice.
AfterSnapshots == IF args.switchvols THEN "switchvols" ELSE "get_reattach_choice"

\* get_snapshot_choice, lines 394-431: one line read at the prompt of the
\* device at block_index.
get_snapshot_choice ==
    /\ spc = "get_snapshot_choice"
    /\ \E selection_raw \in RawAnswers :
        /\ answer' = selection_raw
        /\ IF int(selection_raw).ok
              /\ in_range(int(selection_raw).value,
                          Len(found[1].BlockDevs[block_index].SnapshotData))
           THEN /\ found' = [found EXCEPT ![1].BlockDevs[block_index].SnapshotData =
                                del_omitted(@, reverse(snapshot_omit_indexes(
                                                @, int(selection_raw).value)), 0)]
                /\ IF block_index < Len(found[1].BlockDevs)
                   THEN /\ block_index' = block_index + 1
                        /\ spc' = spc
                   ELSE /\ block_index' = 0
                        /\ spc' = AfterSnapshots
           ELSE UNCHANGED <<found, spc, block_index>>
    /\ prev' = Step("get_snapshot_choice", <<>>)
    /\ history' = After("get_snapshot_choice", spc')
    /\ UNCHANGED <<runVars, codecVars, hookVars>>

\* main, lines 1189-1191: --switchvols answers for the operator.
main_switchvols ==
    /\ spc = "switchvols"
    /\ found' = [j \in 1 .. Len(found) |-> [found[j] EXCEPT !.SwitchVols = <<TRUE>>]]
    /\ spc' = AfterSwitch
    /\ prev' = Step("main", <<>>)
    /\ history' = After("main", spc')
    /\ answer' = NoAnswer
    /\ UNCHANGED <<block_index, runVars, codecVars, hookVars>>

\* get_reattach_choice, lines 458-471: one line read at the prompt.
get_reattach_choice ==
    /\ spc = "get_reattach_choice"
    /\ \E answer_raw \in RawAnswers :
        /\ answer' = answer_raw
        /\ IF answer_word(answer_raw) \in {"yes", "no"}
           THEN /\ found' = [found EXCEPT ![1].SwitchVols =
                                <<answer_word(answer_raw) = "yes">>]
                /\ spc' = AfterSwitch
           ELSE UNCHANGED <<found, spc>>
    /\ prev' = Step("get_reattach_choice", <<>>)
    /\ history' = After("get_reattach_choice", spc')
    /\ UNCHANGED <<block_index, runVars, codecVars, hookVars>>

\* main, lines 1196-1197: with --saveplan the plan is written.
select_saveplan ==
    /\ spc = "save_plan"
    /\ spc' \in {"saved", "failed"}
    /\ prev' = Step("save_plan", <<>>)
    /\ history' = After("save_plan", spc')
    /\ answer' = NoAnswer
    /\ UNCHANGED <<found, block_index, runVars, codecVars, hookVars>>

\* main, lines 1199-1204, and get_user_confirmation, lines 512-520: one
\* line read at the prompt.
select_confirmation ==
    /\ spc = "get_user_confirmation"
    /\ \E answer_raw \in RawAnswers :
        /\ answer' = answer_raw
        /\ spc' = CASE get_user_confirmation(answer_word(answer_raw)) = "True" -> "execute"
                    [] get_user_confirmation(answer_word(answer_raw)) = "False" -> "cancelled"
                    [] OTHER -> spc
    /\ prev' = Step("get_user_confirmation", <<>>)
    /\ history' = After("get_user_confirmation", spc')
    /\ UNCHANGED <<found, block_index, runVars, codecVars, hookVars>>

\* main, lines 1208-1210: CTRL+C during the acquisition.
select_KeyboardInterrupt ==
    /\ spc \notin SelectTerminal
    /\ spc' = "interrupted"
    /\ prev' = Step("KeyboardInterrupt", <<>>)
    /\ history' = After("KeyboardInterrupt", spc')
    /\ answer' = NoAnswer
    /\ UNCHANGED <<found, block_index, runVars, codecVars, hookVars>>

SelectNext ==
    \/ query_ec2_instances
    \/ get_instance_choice
    \/ get_volume_choice
    \/ get_volume_data
    \/ query_ebs_snapshots
    \/ get_snapshot_choice
    \/ main_switchvols
    \/ get_reattach_choice
    \/ select_saveplan
    \/ select_confirmation
    \/ select_KeyboardInterrupt

SelectSpec == SelectStart /\ [][SelectNext]_vars

----------------------------------------------------------------------------
(* Properties of one invocation (specification Spec).                      *)

CallIdx == DOMAIN calls
SwitchOps == {"stop", "detach", "attach", "start"}
Succeeded(c) == c.res = "ok" /\ c.waited = "ok"
Failed(c) == c.res = "error" \/ c.waited = "WaiterError"

\* C1: in a switchVolumes=true run, the attach call for a device is issued
\* only after the detach of that device's original volume has completed,
\* i.e. after the detach wait has observed the original volume available.
C1_AttachAfterDetachCompleted ==
    \A k \in CallIdx :
        calls[k].op = "attach" =>
            \E j \in 1 .. k - 1 :
                /\ calls[j].op = "detach"
                /\ calls[j].dev = calls[k].dev
                /\ calls[j].vol = instance_dict.BlockDevs[calls[k].dev].VolumeId
                /\ Succeeded(calls[j])

\* C2: when a gateway step fails (non-success response, or exhausted poll
\* budget while waiting) the run aborts: no further gateway call is issued.
\* Hence every call but the last one succeeded and its wait succeeded.
C2_AbortOnAnyFailure ==
    \A k \in CallIdx : k < Len(calls) => Succeeded(calls[k])

CreatedAndAvailable(vol, before) ==
    \E j \in 1 .. before :
        calls[j].op = "create" /\ calls[j].vol = vol /\ Succeeded(calls[j])

\* C3: attachVolume is only called with a volume id that createVolume returned
\* and that was observed available, and NewVolumeId is recorded on a device
\* only when its creation succeeded.
C3_AttachOnlyConfirmedVolume ==
    /\ \A k \in CallIdx :
        calls[k].op = "attach" => CreatedAndAvailable(calls[k].vol, k - 1)
    /\ \A i \in 1 .. NDevs :
        instance_dict.BlockDevs[i].NewVolumeId # Unset =>
            CreatedAndAvailable(instance_dict.BlockDevs[i].NewVolumeId, Len(calls))

\* C4: in a switchVolumes=true run no detach or attach call is issued unless
\* the instance was observed stopped by the wait that follows the stop request.
C4_SwitchOnlyWhenStopped ==
    \A k \in CallIdx :
        calls[k].op \in {"detach", "attach"} =>
            \E j \in 1 .. k - 1 : calls[j].op = "stop" /\ Succeeded(calls[j])

\* C5: in a switchVolumes=true run over two or more devices, when creating the
\* volume of device k fails, no stop, detach, attach or start call is ever
\* issued, and the volumes created for devices 1..k-1 exist and are unattached.
C5_CreateFailureStopsBeforeSwitch ==
    (instance_dict.SwitchVols /\ NDevs >= 2) =>
        \A k \in CallIdx :
            (calls[k].op = "create" /\ Failed(calls[k])) =>
                /\ \A j \in CallIdx : calls[j].op \notin SwitchOps
                /\ \A j \in 1 .. k - 1 :
                    (calls[j].op = "create" /\ calls[j].res = "ok") =>
                        /\ calls[j].vol \in volumes
                        /\ attachedAs[calls[j].vol] = None

\* C6: no mutating gateway call is issued before the operator has answered
\* "yes" to the final confirmation; the answer "no" ends the run with no
\* mutating call and the live resources as they were.
C6_NoMutationWithoutYes ==
    /\ calls # <<>> => confirmed = "yes"
    /\ confirmed # "yes" =>
        /\ instState = "running"
        /\ volumes = OrigVolumes
        /\ \A v \in OrigVolumes : volState[v] = "in-use" /\ attachedAs[v] # None
    /\ confirmed = "no" => pc = "cancelled" /\ calls = <<>>

C6_Witness == confirmed = "no" /\ pc = "cancelled" /\ NDevs >= 1

\* C7: with switchVolumes false the run ends once createVolume has been
\* performed for every device: no stop, detach, attach or start call is
\* issued, and the power state and the attachments stay as they were.
C7_CreateOnlyRun ==
    (pc \notin {"start", "acquire"} /\ ~instance_dict.SwitchVols) =>
        /\ \A k \in CallIdx : calls[k].op \notin SwitchOps
        /\ instState = "running"
        /\ \A v \in OrigVolumes : attachedAs[v] = DevName(v[2]) /\ volState[v] = "in-use"
        /\ \A v \in AllVolumes \ OrigVolumes : attachedAs[v] = None
        /\ pc = "done" =>
            /\ Len(calls) = NDevs
            /\ \A i \in 1 .. NDevs : calls[i].op = "create" /\ calls[i].dev = i

C7_Witness ==
    /\ pc = "done"
    /\ ~instance_dict.SwitchVols
    /\ NDevs >= 2
    /\ \A i \in 1 .. NDevs : NewVol(i) \in volumes

\* C8: whatever the outcome of the run, no volume is deleted: every volume
\* that existed before the run still exists, original volumes detached by a
\* switch included, and so does every volume the run created.
C8_NoVolumeDeleted ==
    /\ OrigVolumes \subseteq volumes
    /\ \A k \in CallIdx :
        (calls[k].op = "create" /\ calls[k].res = "ok") => calls[k].vol \in volumes

C8_Witness ==
    /\ pc \in Terminal
    /\ \E v \in OrigVolumes : attachedAs[v] = None /\ volState[v] = "available"
    /\ OrigVolumes \subseteq volumes

----------------------------------------------------------------------------
(* Claims about save_plan and load_plan (CodecSpec).                       *)

\* What load_plan returns when it accepts the file: the plan handed to save_plan.
SavedPlanLoaded == loaded = [outcome |-> "loaded", plan |-> plan_in]

\* C9: save_plan followed by load_plan of the unmodified file passes the
\* checksum verification and returns searchtags_dict and instance_dict equal
\* to the ones that were saved.
C9_RoundTrip == (cpc = "loaded" /\ tampered = 0) => SavedPlanLoaded

\* C9 witness: an unmodified file with a block device has been loaded.
C9_Witness ==
    /\ cpc = "loaded"
    /\ tampered = 0
    /\ loaded.outcome = "loaded"
    /\ loaded.plan.instance_dict = plan_in.instance_dict
    /\ loaded.plan.searchtags_dict = PlanSearchTags

\* C10 as stated: after any one-character change inside the plan sub-object
\* of the saved file, load_plan fails on the checksum and returns no plan.
C10_AnyMutationIsMismatch ==
    (cpc = "loaded" /\ tampered # 0) => loaded = Exit("checksum_mismatch")

\* C10 as amended: after a one-character change inside the plan sub-object of
\* the saved file, load_plan never returns a plan other than the saved one.
\* It ends the process and returns nothing (on the checksum, on the parse or
\* on a missing plan element), or the changed text still decodes to the saved
\* plan (white space) and load_plan returns that plan.
C10_MutationNeverYieldsOtherPlan ==
    (cpc = "loaded" /\ tampered # 0) =>
        \/ loaded.outcome \in LoadFailures /\ loaded.plan = NoPlan
        \/ SavedPlanLoaded

\* C10 witness: a changed character made load_plan fail on the checksum.
C10_Witness ==
    /\ cpc = "loaded"
    /\ tampered # 0
    /\ file[tampered] \in TamperChars
    /\ loaded = Exit("checksum_mismatch")

\* The failures load_plan reports for a file of the wrong structure.
MalformedOutcomes ==
    {"not_a_data_structure", "structure_elements_missing", "plan_elements_missing"}

\* An object that is not a mapping, or lacks metadata or plan, or whose plan
\* lacks the entry instance_dict or the entry searchtags_dict.
HasEntry(obj, key) == obj.t = "dict" /\ HasKey(obj.v, key)
Malformed(obj) ==
    \/ obj.t # "dict"
    \/ ~HasEntry(obj, K_metadata)
    \/ ~HasEntry(obj, K_plan)
    \/ ~HasEntry(Get(obj.v, K_plan), K_instance_dict)
    \/ ~HasEntry(Get(obj.v, K_plan), K_searchtags_dict)

\* C12: load_plan fails as malformed and returns no plan whenever the file
\* holds something that is not a mapping or that lacks metadata, plan, or
\* within plan instance_dict or searchtags_dict; the checksum is not what
\* decides such a file.
C12_MalformedBeforeChecksum ==
    (cpc = "foreign_loaded" /\ Malformed(artifact)) =>
        loaded.outcome \in MalformedOutcomes /\ loaded.plan = NoPlan

----------------------------------------------------------------------------
(* Properties of load mode: load_plan and revalidate_loaded_plan (Spec).   *)

Lookups == DOMAIN verified
Mutating == calls # <<>> \/ Env # <<"running", OrigVolumes,
                                    [v \in AllVolumes |-> IF v \in OrigVolumes THEN "in-use" ELSE "absent"],
                                    [v \in AllVolumes |-> IF v \in OrigVolumes THEN DevName(v[2]) ELSE None]>>

\* C11: in load mode, when load_plan fails the run is over: no lookup of an
\* instance, volume or snapshot was made and no mutating call was issued.
C11_FailedLoadTouchesNothing ==
    load_outcome \in LoadFailures => pc = "failed" /\ verified = <<>> /\ ~Mutating

\* C11 witness: load_plan ended the run on a checksum mismatch.
C11_Witness ==
    args.loadplan /\ load_outcome = "checksum_mismatch" /\ pc = "failed"

\* The live resource a lookup found, when it found exactly one.
LiveInstanceOf(e) == e.response.Reservations[1].Instances[1]
InstanceFound(e) ==
    /\ e.kind = "instance" /\ e.response.status = "ok"
    /\ Len(e.response.Reservations) = 1
    /\ Len(e.response.Reservations[1].Instances) = 1
VolumeFound(e) ==
    e.kind = "volume" /\ e.response.status = "ok" /\ Len(e.response.Volumes) = 1
SnapshotFound(e) ==
    e.kind = "snapshot" /\ e.response.status = "ok" /\ Len(e.response.Snapshots) = 1

\* The live name of an instance: the value of its Name tag, empty without one.
LiveName(instance) ==
    LET named == {i \in DOMAIN instance.Tags : instance.Tags[i].Key = "Name"}
    IN  IF named = {} THEN ""
        ELSE instance.Tags[CHOOSE i \in named : \A j \in named : j <= i].Value

\* The tracked attributes of a found resource that differ from the plan.
InstanceDrift(e) ==
    {a \in {"Name", "IPAddress"} :
        \/ a = "Name" /\ LiveName(LiveInstanceOf(e)) # RecordedName
        \/ a = "IPAddress" /\ LiveInstanceOf(e).PrivateIpAddress # RecordedIP}
VolumeDrift(e) ==
    LET live == e.response.Volumes[1]
        block_dev == instance_dict.BlockDevs[e.dev]
        recorded == RecordedVolume(block_dev.VolumeId)
    IN  {a \in {"DeviceName", "AvailabilityZone", "Encrypted", "Size", "VolumeType",
                "KmsKeyId"} :
            \/ a = "DeviceName" /\ (\/ Len(live.Attachments) # 1
                                     \/ live.Attachments[1].Device # block_dev.DeviceName)
            \/ a = "AvailabilityZone" /\ live.AvailabilityZone # recorded.AvailabilityZone
            \/ a = "Encrypted" /\ live.Encrypted # recorded.Encrypted
            \/ a = "Size" /\ live.Size # recorded.Size
            \/ a = "VolumeType" /\ live.VolumeType # recorded.VolumeType
            \/ a = "KmsKeyId" /\ recorded.Encrypted /\ live.KmsKeyId # recorded.KmsKeyId}
SnapshotDrift(e) ==
    IF e.response.Snapshots[1].StartTime.day # RecordedDay THEN {"StartTime"} ELSE {}
Drift(e) ==
    CASE e.kind = "instance" -> InstanceDrift(e)
      [] e.kind = "volume" -> VolumeDrift(e)
      [] e.kind = "snapshot" -> SnapshotDrift(e)
Found(e) == InstanceFound(e) \/ VolumeFound(e) \/ SnapshotFound(e)
Attached(e) == e.kind = "volume" => e.response.Volumes[1].Attachments # <<>>

EmptyResult(e) ==
    /\ e.response.status = "ok"
    /\ CASE e.kind = "instance" ->
                \A r \in DOMAIN e.response.Reservations :
                    e.response.Reservations[r].Instances = <<>>
         [] e.kind = "volume" -> e.response.Volumes = <<>>
         [] e.kind = "snapshot" -> e.response.Snapshots = <<>>

\* C14: a lookup of an instance, a volume or a snapshot of the plan that
\* returns an empty result set makes revalidate_loaded_plan fail.
C14_MissingResourceIsFatal ==
    \A k \in Lookups :
        EmptyResult(verified[k]) => verified[k].outcome # Verified /\ pc = "failed"

\* The lookups revalidate_loaded_plan makes for the plan, in order.
ExpectedLookups ==
    [k \in 1 .. 1 + 2 * NDevs |->
        IF k = 1 THEN <<"instance", 0>>
        ELSE IF k % 2 = 0 THEN <<"volume", k \div 2>>
        ELSE <<"snapshot", k \div 2>>]

\* C15: in load mode no mutating call is issued unless revalidate_loaded_plan
\* has gone through the instance and every volume and selected snapshot of
\* the plan with every verification passed; once a verification has failed
\* the run is over with nothing executed.
C15_NoMutationBeforeRevalidated ==
    args.loadplan =>
        /\ Mutating =>
                /\ load_outcome = "loaded"
                /\ [k \in Lookups |-> <<verified[k].kind, verified[k].dev>>] = ExpectedLookups
                /\ \A k \in Lookups : verified[k].outcome = Verified
        /\ (\E k \in Lookups : verified[k].outcome # Verified) =>
                pc = "failed" /\ ~Mutating

\* C15 witness: a loaded plan of two devices was verified throughout and its
\* first volume has been created.
C15_Witness ==
    /\ args.loadplan
    /\ Len(verified) = 5
    /\ \E k \in CallIdx : calls[k].op = "create" /\ calls[k].res = "ok"

----------------------------------------------------------------------------
(* Properties of the interactive acquisition (specification SelectSpec).   *)

\* The instance the acquisition works on once one is chosen.
Chosen == found[1]
ChosenBefore == prev.plan[1]

\* The number the operator typed, when the line is one.
Typed == int(answer).value
TypedIndex(n) == int(answer).ok /\ Typed \in 0 .. n - 1

\* The devices of a list, told apart by device name and volume.
Identity(block_devs) ==
    [b \in 1 .. Len(block_devs) |->
        <<block_devs[b].DeviceName, block_devs[b].VolumeId>>]

\* The positions (1-based) of the devices for which the lookup of the last
\* query_ebs_snapshots found at least one snapshot.
WithSnapshots ==
    SelectSeq([b \in 1 .. Len(prev.response) |-> b],
              LAMBDA b : Len(prev.response[b]) > 0)

\* C16: after query_ebs_snapshots no remaining device has an empty
\* SnapshotData; the devices removed are exactly those for which no snapshot
\* was found, the others keep their order, and when none remains the run has
\* ended with an error.
C16_DevicesWithoutSnapshotsPruned ==
    prev.op = "query_ebs_snapshots" =>
        /\ \A b \in 1 .. Len(Chosen.BlockDevs) : Chosen.BlockDevs[b].SnapshotData # <<>>
        /\ Identity(Chosen.BlockDevs) =
            [k \in 1 .. Len(WithSnapshots) |->
                Identity(ChosenBefore.BlockDevs)[WithSnapshots[k]]]
        /\ (Len(Chosen.BlockDevs) = 0) <=> (spc = "failed")
        /\ (Len(Chosen.BlockDevs) > 0) <=> (spc = "get_snapshot_choice")

\* Two of three devices had no snapshot and were removed around the one kept.
C16_Witness ==
    /\ prev.op = "query_ebs_snapshots"
    /\ Len(ChosenBefore.BlockDevs) = 3
    /\ WithSnapshots = <<2>>
    /\ Len(Chosen.BlockDevs) = 1
    /\ spc = "get_snapshot_choice"

\* C17: a valid device index i leaves exactly the i-th device in BlockDevs,
\* and A (or a) leaves BlockDevs as it was.
C17_DeviceChoiceKeepsTheOneChosen ==
    (prev.op = "get_volume_choice" /\ answer # NoAnswer) =>
        /\ (answer \notin {<<"A">>, <<"a">>}
            /\ TypedIndex(Len(ChosenBefore.BlockDevs))) =>
                Chosen.BlockDevs = <<ChosenBefore.BlockDevs[Typed + 1]>>
        /\ answer \in {<<"A">>, <<"a">>} => Chosen.BlockDevs = ChosenBefore.BlockDevs

\* The positions of main after get_snapshot_choice has returned.
SnapshotsSelected == {"switchvols", "get_reattach_choice", "save_plan", "get_user_confirmation",
     "saved", "execute", "cancelled"}

InstanceSelected ==
    {"get_volume_choice", "get_volume_data", "query_ebs_snapshots",
     "get_snapshot_choice"} \cup SnapshotsSelected

\* C19: once the instance is settled instance_dict has one entry: the entry
\* at the index typed, as it was found, when several were found, and the
\* instance found when it was the only one.
C19_OneInstanceSelected ==
    /\ (prev.op = "get_instance_choice" /\ TypedIndex(Len(prev.plan))) =>
            found = <<prev.plan[Typed + 1]>>
    /\ (prev.op = "query_ec2_instances" /\ Len(prev.response) = 1) =>
            /\ Len(found) = 1
            /\ found[1].InstanceId = prev.response[1].InstanceId
            /\ spc = "get_volume_choice"
    /\ (prev.op = "query_ec2_instances" /\ Len(prev.response) > 1) =>
            spc = "get_instance_choice"
    /\ spc \in InstanceSelected => Len(found) = 1

\* Of two instances found the second was selected.
C19_Witness ==
    /\ prev.op = "get_instance_choice"
    /\ Len(prev.plan) = 2
    /\ int(answer).ok
    /\ Typed = 1
    /\ found = <<prev.plan[2]>>

\* The answers a prompt does not take.
NotAnIndex(n) == ~int(answer).ok \/ Typed < 0 \/ Typed >= n
NotYesOrNo == lower(answer) \notin {<<"y", "e", "s">>, <<"n", "o">>}
InvalidAnswer ==
    CASE prev.op = "get_instance_choice" -> NotAnIndex(Len(prev.plan))
      [] prev.op = "get_volume_choice" ->
            answer \notin {<<"A">>, <<"a">>} /\ NotAnIndex(Len(ChosenBefore.BlockDevs))
      [] prev.op = "get_snapshot_choice" ->
            NotAnIndex(Len(ChosenBefore.BlockDevs[prev.block_index].SnapshotData))
      [] prev.op \in {"get_reattach_choice", "get_user_confirmation"} -> NotYesOrNo
      [] OTHER -> FALSE

\* C20: at each of the five prompts an answer that is no number, out of
\* range, or neither yes nor no changes nothing of the plan and the same
\* prompt asks again.
C20_InvalidAnswerAsksAgain ==
    (answer # NoAnswer /\ InvalidAnswer) =>
        /\ found = prev.plan
        /\ spc = prev.at
        /\ block_index = prev.block_index

\* An invalid answer was given at the prompt named.
AskedAgain(op) == answer # NoAnswer /\ prev.op = op /\ InvalidAnswer /\ spc = prev.at
C20_Witness ==
    /\ AskedAgain("get_user_confirmation")
    /\ answer = <<"y">>

C20_WitnessInstance == AskedAgain("get_instance_choice") /\ answer = <<"2">>
C20_WitnessDevice == AskedAgain("get_volume_choice") /\ answer = <<"-", "1">>
C20_WitnessSnapshot == AskedAgain("get_snapshot_choice") /\ answer = <<"x">>
C20_WitnessSwitch == AskedAgain("get_reattach_choice") /\ answer = <<>>

\* The run after discovery found a single instance with a single device.
OneInstanceOneDevice == history.discovered = <<1>>

\* C21: when discovery finds one instance with one device and one snapshot,
\* neither the instance prompt nor the device prompt is shown, while the
\* snapshot prompt and the final confirmation are.
C21_SingleDeviceNotPrompted ==
    /\ (OneInstanceOneDevice
        /\ spc = "get_snapshot_choice"
        /\ Len(Chosen.BlockDevs[1].SnapshotData) = 1) =>
            /\ "get_instance_choice" \notin history.prompts
            /\ "get_volume_choice" \notin history.prompts
            /\ "get_snapshot_choice" \in history.prompts
    /\ (OneInstanceOneDevice /\ spc \in {"execute", "cancelled"}) =>
            {"get_snapshot_choice", "get_user_confirmation"} \subseteq history.prompts

\* The day a recorded StartTime names.
DayOf(snapshot) == snapshot.StartTime[2]

\* C24: after query_ebs_snapshots the SnapshotData of every device lists the
\* snapshots newest first, in whatever order the gateway returned them.
C24_CandidatesNewestFirst ==
    prev.op = "query_ebs_snapshots" =>
        \A b \in 1 .. Len(Chosen.BlockDevs) :
            \A s, t \in 1 .. Len(Chosen.BlockDevs[b].SnapshotData) :
                s < t => DayOf(Chosen.BlockDevs[b].SnapshotData[s])
                            > DayOf(Chosen.BlockDevs[b].SnapshotData[t])

\* The run after discovery found no instance.
NothingDiscovered ==
    "query_ec2_instances" \in history.queries /\ history.discovered = <<>>

\* C25: when discovery finds no instance the run has ended with exit status
\* 1, no prompt was shown, no other query was made and nothing was called.
C25_EmptyDiscoveryIsFatal ==
    NothingDiscovered =>
        /\ spc = "failed"
        /\ exit_status(spc) = 1
        /\ history.prompts = {}
        /\ history.queries = {"query_ec2_instances"}
        /\ calls = <<>>

\* Discovery answered with no instance and the run is over.
C25_Witness ==
    /\ NothingDiscovered
    /\ prev.op = "query_ec2_instances"
    /\ prev.response = <<>>
    /\ spc \in SelectTerminal

----------------------------------------------------------------------------
(* Exit status, interrupts, order of the calls, termination, requests.     *)

\* The creations of the run all ended with the volume available.
AllCreatedAvailable ==
    \A i \in 1 .. NDevs :
        \E k \in CallIdx :
            /\ calls[k].op = "create"
            /\ calls[k].dev = i
            /\ Succeeded(calls[k])

\* C22: a run in which a call or a wait failed ends with a non-zero exit
\* status, and a run that ends with the completed-restore report and a clean
\* exit created every volume and saw every call it made reach its target.
C22_FailureExitsNonZero ==
    /\ (pc \in Terminal \ {"interrupted"} /\ \E k \in CallIdx : Failed(calls[k]))
            => exit_status(pc) # 0
    /\ pc = "done" =>
            /\ AllCreatedAvailable
            /\ \A k \in CallIdx : Succeeded(calls[k])

\* C23: the step of an operator interrupt issues no gateway call, changes
\* nothing outside and ends the run as a cancellation with exit status 0;
\* after it the run takes no step at all.
C23_InterruptStopsEverything ==
    [][ /\ KeyboardInterrupt =>
            /\ calls' = calls
            /\ Env' = Env
            /\ instance_dict' = instance_dict
            /\ pc' = "interrupted"
            /\ exit_status(pc') = 0
        /\ pc = "interrupted" => UNCHANGED <<pc, calls, Env>> ]_vars

\* Interrupted with an original volume detached and its replacement not
\* attached: the instance is left stopped, nothing is rolled back.
C23_Witness ==
    /\ pc = "interrupted"
    /\ instState = "stopped"
    /\ \E i \in 1 .. NDevs :
        /\ attachedAs[instance_dict.BlockDevs[i].VolumeId] = None
        /\ \A k \in CallIdx : ~(calls[k].op = "attach" /\ calls[k].dev = i)
    /\ calls[Len(calls)].op = "detach"

\* The run completed a switch of n devices and no step failed.
SwitchCompleted ==
    /\ pc = "done"
    /\ instance_dict.SwitchVols
    /\ \A k \in CallIdx : Succeeded(calls[k])

\* C26: the calls of a completed switch in which no step failed are
\* create(d1..dn), stop, detach(d1), attach(d1) .. detach(dn), attach(dn),
\* start, each attach under the device name of the detach before it.
C26_SwitchCallOrder ==
    SwitchCompleted =>
        LET n == NDevs
        IN  /\ Len(calls) = 3 * n + 2
            /\ \A i \in 1 .. n :
                /\ calls[i].op = "create"
                /\ calls[i].dev = i
                /\ calls[i].request.SnapshotId = instance_dict.BlockDevs[i].SnapshotData[1].SnapshotId
                /\ calls[n + 2 * i].op = "detach"
                /\ calls[n + 2 * i].dev = i
                /\ calls[n + 2 * i].request.VolumeId = instance_dict.BlockDevs[i].VolumeId
                /\ calls[n + 2 * i].request.Device = instance_dict.BlockDevs[i].DeviceName
                /\ calls[n + 2 * i + 1].op = "attach"
                /\ calls[n + 2 * i + 1].dev = i
                /\ calls[n + 2 * i + 1].request.VolumeId = instance_dict.BlockDevs[i].NewVolumeId
                /\ calls[n + 2 * i + 1].request.Device = calls[n + 2 * i].request.Device
            /\ calls[n + 1].op = "stop"
            /\ calls[3 * n + 2].op = "start"

\* A switch of more than one device completed without a failure.
C26_Witness == SwitchCompleted /\ NDevs > 1

\* C27: every run ends: it reaches completion, abort, the saved plan, a
\* declined confirmation or cancellation.
C27_Terminates == <>(pc \in Terminal)

\* A wait of the switch phase has made every poll but the last its budget
\* allows, after an earlier wait ended with WaiterError.
C27_Witness ==
    /\ pc \in WaitPositions \ {"create_wait"}
    /\ attempts = wait_attempts - 1
    /\ polls_after(attempts) = {}
    /\ \E k \in CallIdx : calls[k].waited = "WaiterError"

\* C28: a run with --saveplan asks no final confirmation and issues no
\* mutating call, and it ends with the plan written, with the failure of
\* the write or of an earlier step, or with cancellation.
C28_SaveOnlyWritesThePlan ==
    args.saveplan =>
        /\ confirmed = "unasked"
        /\ calls = <<>>
        /\ instState = "running"
        /\ volumes = OrigVolumes
        /\ \A v \in OrigVolumes : volState[v] = "in-use" /\ attachedAs[v] # None
        /\ pc \in Terminal => pc \in {"saved", "failed", "interrupted"}

\* A plan of the interactive acquisition was written and the run ended.
C28_Witness ==
    /\ args.saveplan
    /\ pc = "saved"
    /\ NDevs > 0

\* The tag with the key among the tags, as a list of its values.
TagValues(tags, key) ==
    [t \in 1 .. Len(SelectSeq(tags, LAMBDA tag : tag.Key = key)) |->
        SelectSeq(tags, LAMBDA tag : tag.Key = key)[t].Value]

\* C29: every create request carries the recorded zone, size, volume type
\* and encrypted flag of its device and the id of its selected snapshot, and
\* its tags are DeviceName, Restored, SourceSnapshot and one tag for every
\* tag filter of the plan.
C29_CreateRequestFromPlan ==
    \A k \in CallIdx :
        calls[k].op = "create" =>
            LET block_device == instance_dict.BlockDevs[calls[k].dev]
                request == calls[k].request
            IN  /\ request.AvailabilityZone = block_device.AvailabilityZone
                /\ request.Size = block_device.Size
                /\ request.VolumeType = block_device.VolumeType
                /\ request.Encrypted = block_device.Encrypted
                /\ request.SnapshotId = block_device.SnapshotData[1].SnapshotId
                /\ Len(request.Tags) = 3 + Len(searchtags_dict)
                /\ TagValues(request.Tags, "DeviceName") = <<block_device.DeviceName>>
                /\ TagValues(request.Tags, "Restored") = << <<"true">> >>
                /\ TagValues(request.Tags, "SourceSnapshot")
                        = <<block_device.SnapshotData[1].SnapshotId>>
                /\ \A t \in 1 .. Len(searchtags_dict) :
                        TagValues(request.Tags, searchtags_dict[t].Key)
                            = <<searchtags_dict[t].Value>>

\* A create request was sent for a plan with two tag filters.
C29_Witness ==
    /\ Len(searchtags_dict) = 2
    /\ \E k \in CallIdx : calls[k].op = "create" /\ Len(calls[k].request.Tags) = 5

\* C30: a create request carries a KmsKeyId exactly when its device is
\* recorded as encrypted, and then the key recorded for the device.
C30_KeyIffEncrypted ==
    \A k \in CallIdx :
        calls[k].op = "create" =>
            LET block_device == instance_dict.BlockDevs[calls[k].dev]
            IN  calls[k].request.KmsKeyId =
                    IF block_device.Encrypted THEN <<block_device.KmsKeyId>> ELSE <<>>

\* Create requests were sent for an encrypted and for an unencrypted device.
C30_Witness ==
    /\ \E k \in CallIdx : calls[k].op = "create" /\ calls[k].request.KmsKeyId = <<>>
    /\ \E k \in CallIdx : calls[k].op = "create" /\ calls[k].request.KmsKeyId # <<>>

----------------------------------------------------------------------------
(* The switch choice, the snapshot candidates, retries, a second run.      *)

\* The positions of main at which SwitchVols is read: the summary of
\* get_user_confirmation, save_plan and manage_restore_process.
SwitchRead == {"save_plan", "get_user_confirmation", "saved", "execute", "cancelled"}

\* C31: in an interactive run with --switchvols the switch prompt is never
\* shown and SwitchVols is true; without it the prompt was shown and
\* SwitchVols is the operator's yes or no; either way it is set wherever the
\* summary, save_plan or the restore reads it.
C31_SwitchSetBeforeRead ==
    /\ args.switchvols => "get_reattach_choice" \notin history.prompts
    /\ spc \in SwitchRead =>
            /\ Len(found) = 1
            /\ Chosen.SwitchVols \in {<<TRUE>>, <<FALSE>>}
            /\ args.switchvols => Chosen.SwitchVols = <<TRUE>>
            /\ ~args.switchvols => "get_reattach_choice" \in history.prompts
    /\ (prev # <<>> /\ prev.op = "get_reattach_choice" /\ spc \in SwitchRead) =>
            /\ lower(answer) \in {<<"y", "e", "s">>, <<"n", "o">>}
            /\ Chosen.SwitchVols = <<lower(answer) = <<"y", "e", "s">> >>

\* With --switchvols the run reached the final confirmation.
C31_Witness ==
    /\ args.switchvols
    /\ spc = "get_user_confirmation"
    /\ prev.op = "main"
    /\ Chosen.SwitchVols = <<TRUE>>

\* C32: the SnapshotData of every device holds only snapshots of the
\* device's own volume, and no more of them than max_results.
C32_CandidatesOfOwnVolumeBounded ==
    (found # <<>> /\ spc \notin {"query_ec2_instances", "get_instance_choice"}) =>
        \A b \in 1 .. Len(Chosen.BlockDevs) :
            /\ Len(Chosen.BlockDevs[b].SnapshotData) <= max_results
            /\ \A s \in 1 .. Len(Chosen.BlockDevs[b].SnapshotData) :
                    Chosen.BlockDevs[b].SnapshotData[s].SnapshotId[2]
                        = Chosen.BlockDevs[b].VolumeId

\* The snapshots were looked up for two devices, and one of them came back
\* with as many as max_results allows.
C32_Witness ==
    /\ prev # <<>>
    /\ prev.op = "query_ebs_snapshots"
    /\ Len(Chosen.BlockDevs) > 1
    /\ \E b \in 1 .. Len(Chosen.BlockDevs) :
            Len(Chosen.BlockDevs[b].SnapshotData) = max_results

\* The calls of an operation made for a device name.
CallsFor(op, device_name) ==
    {k \in CallIdx :
        /\ calls[k].op = op
        /\ IF op = "create"
           THEN TagValues(calls[k].request.Tags, "DeviceName") = <<device_name>>
           ELSE calls[k].request.Device = device_name}

\* C33: in one run no device of the plan is the subject of more than one
\* create, one detach or one attach call, and the instance is asked to stop
\* at most once and to start at most once.
C33_NoStepRetried ==
    /\ \A i \in 1 .. NDevs :
        \A op \in {"create", "detach", "attach"} :
            Cardinality(CallsFor(op, instance_dict.BlockDevs[i].DeviceName)) <= 1
    /\ Cardinality({k \in CallIdx : calls[k].op = "stop"}) <= 1
    /\ Cardinality({k \in CallIdx : calls[k].op = "start"}) <= 1

\* A switch over two devices ran to its end although the stop, a detach
\* and an attach had failed in their waits.
C33_Witness ==
    /\ pc = "done"
    /\ NDevs = 2
    /\ \A op \in {"stop", "detach", "attach"} :
        \E k \in CallIdx : calls[k].op = op /\ calls[k].waited = "WaiterError"
    /\ \E k \in CallIdx : calls[k].op = "start"

\* The volume a lookup found is attached to the instance of the plan.
AttachedToPlanInstance(volume) ==
    \E a \in 1 .. Len(volume.Attachments) : volume.Attachments[a].InstanceId = TheInstance

\* C35: revalidation does not accept a volume of the plan that is not
\* attached to the instance of the plan, whether it is attached nowhere or
\* to another instance under the same device name.
C35_VolumeOfAnotherInstanceRejected ==
    \A n \in 1 .. Len(verified) :
        (/\ verified[n].kind = "volume"
         /\ Len(verified[n].response.Volumes) = 1
         /\ ~AttachedToPlanInstance(verified[n].response.Volumes[1]))
            => verified[n].outcome # Verified

\* C34: once a switch has completed without a failure, a second invocation
\* on the same plan gets no further than the verification of the first
\* volume, where it ends: the plan is never revalidated again.
C34_SwitchedPlanNotRevalidatedAgain ==
    SwitchCompleted =>
        /\ rerun.pc \in {"idle", "verify_instance", "verify_volume", "failed"}
        /\ rerun.pc = "failed" =>
                /\ Len(rerun.verified) = 2
                /\ rerun.verified[2].kind = "volume"
                /\ rerun.verified[2].response.Volumes[1].Attachments = <<>>
                /\ rerun.verified[2].outcome # Verified

\* The second invocation ended at the first volume of a switched plan.
C34_Witness ==
    /\ SwitchCompleted
    /\ rerun.pc = "failed"
    /\ rerun.verified[1].outcome = Verified

\* The text of the artifact before its timestamp was replaced.
TextBeforeRestamp ==
    IF planSpan[1] > 0
    THEN save_plan_text(plan_in.searchtags_dict, plan_in.instance_dict, SaveTime)
    ELSE json_dumps(artifact, FALSE)

\* C36: an artifact and the artifact that differs from it in the stored
\* timestamp alone are loaded with the same outcome and the same plan, and
\* a saved plan is accepted whatever its timestamp.
C36_TimestampDoesNotDecide ==
    cpc = "restamped_loaded" =>
        LET before == load_plan_result(TextBeforeRestamp)
        IN  /\ file # TextBeforeRestamp
            /\ loaded.outcome = before.outcome
            /\ loaded.plan = before.plan
            /\ planSpan[1] > 0 => loaded.outcome = "loaded"

\* A saved plan was loaded with a timestamp other than the one it was
\* saved with.
C36_Witness ==
    /\ cpc = "restamped_loaded"
    /\ planSpan[1] > 0
    /\ file # TextBeforeRestamp
    /\ loaded.outcome = "loaded"

\* C37: in a load-mode run SwitchVols is what the plan file records,
\* whatever --switchvols says; the switch phase runs exactly when the file
\* says so, and the operator is never asked about switching.
C37_LoadedSwitchValueActedOn ==
    (args.loadplan /\ plan_read.read) =>
        /\ instance_dict.SwitchVols = plan_read.SwitchVols
        /\ (\E k \in CallIdx : calls[k].op \in SwitchOps) => plan_read.SwitchVols
        /\ (pc = "done" /\ plan_read.SwitchVols) => \E k \in CallIdx : calls[k].op = "stop"
        /\ spc = "idle"
        /\ "get_reattach_choice" \notin history.prompts

\* A plan that records no switch was loaded with --switchvols given, and
\* the run ended after the creations.
C37_Witness ==
    /\ args.loadplan
    /\ args.switchvols
    /\ plan_read.read
    /\ ~plan_read.SwitchVols
    /\ pc = "done"
    /\ calls # <<>>
    /\ \A k \in CallIdx : calls[k].op = "create"

----------------------------------------------------------------------------
(* The record made for each instance discovered.                           *)

\* The values of the Name tags an instance of the response carries.
NameTagValues(instance) ==
    {instance.Tags[t].Value :
        t \in {u \in 1 .. Len(instance.Tags) : instance.Tags[u].Key = "Name"}}

\* C38: when discovery has returned, the record of every instance of the
\* response holds the value of a Name tag of that very instance and no name
\* of another instance, its own private address, and the device name and
\* volume id of each of its own block-device mappings, in order.
C38_RecordFromOwnInstance ==
    prev.op = "query_ec2_instances" =>
        /\ Len(found) = Len(prev.response)
        /\ \A j \in 1 .. Len(found) :
            /\ found[j].InstanceId = prev.response[j].InstanceId
            /\ found[j].Name \in NameTagValues(prev.response[j]) \cup {Unset}
            /\ found[j].IPAddress = prev.response[j].PrivateIpAddress
            /\ Len(found[j].BlockDevs)
                    = Len(prev.response[j].BlockDeviceMappings)
            /\ \A d \in 1 .. Len(found[j].BlockDevs) :
                /\ found[j].BlockDevs[d].DeviceName
                        = prev.response[j].BlockDeviceMappings[d].DeviceName
                /\ found[j].BlockDevs[d].VolumeId
                        = prev.response[j].BlockDeviceMappings[d].Ebs.VolumeId

----------------------------------------------------------------------------
(* concourse-webhook-validator: main, lines 324-356, on one pipeline file. *)

\* Bound: the resources of a pipeline configuration.
MaxHooks == 2

\* WEBHOOK_REGEX, line 10: the characters of the class [a-zA-Z0-9].
AlphaNumeric ==
    Digits
    \cup {"a", "b", "c", "d", "e", "f", "g", "h", "i", "j", "k", "l", "m",
          "n", "o", "p", "q", "r", "s", "t", "u", "v", "w", "x", "y", "z"}
    \cup {"A", "B", "C", "D", "E", "F", "G", "H", "I", "J", "K", "L", "M",
          "N", "O", "P", "Q", "R", "S", "T", "U", "V", "W", "X", "Y", "Z"}

\* re.search(WEBHOOK_REGEX, token), lines 10 and 129: ^ matches at the
\* start, the class is repeated, and $ matches at the end of the string or
\* just before a newline that ends it.
WEBHOOK_REGEX_search(token) ==
    LET last == IF Len(token) > 0 /\ token[Len(token)] = "\n"
                THEN Len(token) - 1 ELSE Len(token)
    IN  \A i \in 1 .. last : token[i] \in AlphaNumeric

\* The k-th resource of a configuration is named after its position.
HookName(k) == <<"resource", k>>

\* A plan step is absent from a job.
NoStep == <<"NoStep">>

\* Token strings of a configuration.
HookTokens == { <<"a", "1">>, <<"a", "-">>, <<"a", "1", "\n">> }

\* What a configuration says of one resource: the webhook_token of the
\* resource (Unset when it has none, None when it is null) and that of its
\* step in create-webhooks and in delete-webhooks (NoStep when the job has
\* no step for it, Unset when the step has no webhook_token parameter).
HookCases ==
    [rwt : HookTokens \cup {<<>>, Unset, None},
     cwt : HookTokens \cup {NoStep, Unset},
     dwt : HookTokens \cup {NoStep, Unset}]

\* What it says of a resource that follows the first.
LaterHookCases ==
    { [rwt |-> <<"a", "1">>, cwt |-> <<"a", "1">>, dwt |-> <<"a", "1">>],
      [rwt |-> <<"a", "1">>, cwt |-> <<"a", "1">>, dwt |-> <<"a", "-">>],
      [rwt |-> Unset, cwt |-> NoStep, dwt |-> NoStep] }

HookCaseLists ==
    {<<>>}
    \cup UNION { {<<first>> \o rest : first \in HookCases,
                                      rest \in [1 .. k - 1 -> LaterHookCases]} :
                 k \in 1 .. MaxHooks }

\* An entry of 'resources' in the file.
pipeline_resource(cases, k) ==
    IF cases[k].rwt = Unset
    THEN [name |-> HookName(k)]
    ELSE [name |-> HookName(k), webhook_token |-> cases[k].rwt]

\* The steps of the plan of the job that sets token key, from step k on.
RECURSIVE pipeline_plan(_, _, _)
pipeline_plan(cases, key, k) ==
    IF k > Len(cases) THEN <<>>
    ELSE (IF cases[k][key] = NoStep THEN <<>>
          ELSE IF cases[k][key] = Unset
          THEN <<[params |-> [resource_name |-> HookName(k)]]>>
          ELSE <<[params |-> [resource_name |-> HookName(k),
                              webhook_token |-> cases[k][key]]]>>)
         \o pipeline_plan(cases, key, k + 1)

\* The jobs of the file: a job of another name, and each webhook job that
\* has a step.
pipeline_jobs(cases) ==
    <<[name |-> "build", plan |-> <<>>]>>
    \o (IF pipeline_plan(cases, "cwt", 1) = <<>> THEN <<>>
        ELSE <<[name |-> "create-webhooks",
                plan |-> pipeline_plan(cases, "cwt", 1)]>>)
    \o (IF pipeline_plan(cases, "dwt", 1) = <<>> THEN <<>>
        ELSE <<[name |-> "delete-webhooks",
                plan |-> pipeline_plan(cases, "dwt", 1)]>>)

\* The objects yaml.safe_load may return (line 45): mappings with both of
\* the keys 'jobs' and 'resources', or without one of them.
PipelineConfigs ==
    { [keys |-> {"jobs", "resources"},
       resources |-> [k \in 1 .. Len(cases) |-> pipeline_resource(cases, k)],
       jobs |-> pipeline_jobs(cases)] : cases \in HookCaseLists }
    \cup { [keys |-> keys, resources |-> <<>>, jobs |-> <<>>] :
                keys \in {{"jobs"}, {"resources"}, {}} }

HookInit ==
    /\ hpc = "load_pipeline_config"
    /\ pipeline_config = <<>>
    /\ webhooks_dict = <<>>
    /\ results = NoResults

\* load_pipeline_config, lines 38-58, called at line 328.
load_pipeline_config ==
    /\ hpc = "load_pipeline_config"
    /\ \/ /\ hpc' = "failed"
          /\ UNCHANGED pipeline_config
       \/ /\ pipeline_config' \in PipelineConfigs
          /\ hpc' = "validate_pipeline_config"
    /\ UNCHANGED <<webhooks_dict, results, runVars, codecVars, selVars>>

\* validate_pipeline_config, lines 61-83.
validation_error(config) ==
    IF "jobs" \notin config.keys \/ "resources" \notin config.keys
    THEN 1 ELSE 0

\* main, lines 329 and 351-356.
validate_pipeline_config ==
    /\ hpc = "validate_pipeline_config"
    /\ hpc' = IF validation_error(pipeline_config) = 0
              THEN "parse_pipeline_resources" ELSE "failed"
    /\ UNCHANGED <<pipeline_config, webhooks_dict, results,
                   runVars, codecVars, selVars>>

\* parse_pipeline_resources, lines 86-94: an entry for every resource with
\* a webhook_token that is not None.
RECURSIVE parse_pipeline_resources_result(_, _)
parse_pipeline_resources_result(resources, k) ==
    IF k > Len(resources) THEN <<>>
    ELSE (IF "webhook_token" \in DOMAIN resources[k]
             /\ resources[k].webhook_token # None
          THEN <<[name |-> resources[k].name,
                  rwt |-> resources[k].webhook_token]>>
          ELSE <<>>)
         \o parse_pipeline_resources_result(resources, k + 1)

\* main, lines 330-331 and 346-349.
parse_pipeline_resources ==
    /\ hpc = "parse_pipeline_resources"
    /\ webhooks_dict' =
            parse_pipeline_resources_result(pipeline_config.resources, 1)
    /\ hpc' = IF Len(webhooks_dict') > 0 THEN "parse_pipeline_jobs" ELSE "done"
    /\ UNCHANGED <<pipeline_config, results, runVars, codecVars, selVars>>

\* The position of the entry of a resource in the dict, 0 when it has none.
entry_of(dict, resource_name) ==
    IF \E k \in 1 .. Len(dict) : dict[k].name = resource_name
    THEN CHOOSE k \in 1 .. Len(dict) : dict[k].name = resource_name
    ELSE 0

\* parse_pipeline_jobs, lines 100-107 and 109-116: the steps of one plan
\* from step i on; a step with a token for a resource without an entry
\* raises KeyError (lines 103, 112).
RECURSIVE parse_plan(_, _, _, _)
parse_plan(parsed, plan, i, key) ==
    IF parsed.KeyError \/ i > Len(plan) THEN parsed
    ELSE IF "webhook_token" \notin DOMAIN plan[i].params
    THEN parse_plan(parsed, plan, i + 1, key)
    ELSE LET k == entry_of(parsed.dict, plan[i].params.resource_name)
         IN  IF k = 0 THEN [parsed EXCEPT !.KeyError = TRUE]
             ELSE parse_plan(
                    [parsed EXCEPT !.dict[k] =
                        (key :> plan[i].params.webhook_token) @@ @],
                    plan, i + 1, key)

\* parse_pipeline_jobs, lines 97-118: the jobs from job j on.
RECURSIVE parse_pipeline_jobs_result(_, _, _)
parse_pipeline_jobs_result(parsed, jobs, j) ==
    IF j > Len(jobs) THEN parsed
    ELSE parse_pipeline_jobs_result(
            IF jobs[j].name = "create-webhooks"
            THEN parse_plan(parsed, jobs[j].plan, 1, "cwt")
            ELSE IF jobs[j].name = "delete-webhooks"
            THEN parse_plan(parsed, jobs[j].plan, 1, "dwt")
            ELSE parsed,
            jobs, j + 1)

\* main, line 332; nothing catches the KeyError.
parse_pipeline_jobs ==
    /\ hpc = "parse_pipeline_jobs"
    /\ LET parsed == parse_pipeline_jobs_result(
                        [KeyError |-> FALSE, dict |-> webhooks_dict],
                        pipeline_config.jobs, 1)
       IN  /\ webhooks_dict' = parsed.dict
           /\ hpc' = IF parsed.KeyError THEN "failed" ELSE "validate_webhooks"
    /\ UNCHANGED <<pipeline_config, results, runVars, codecVars, selVars>>

\* validate_webhooks, lines 150-168 and 170-188: the code of a job token.
job_token_code(resource_webhooks, key) ==
    IF key \in DOMAIN resource_webhooks
    THEN (IF resource_webhooks[key] = resource_webhooks.rwt THEN 0 ELSE 1)
    ELSE 2

\* validate_webhooks, lines 121-190: the three codes of one resource.
validate_webhooks_result(resource_webhooks) ==
    [rwv |-> IF WEBHOOK_REGEX_search(resource_webhooks.rwt) THEN 0 ELSE 1,
     cwv |-> job_token_code(resource_webhooks, "cwt"),
     dwv |-> job_token_code(resource_webhooks, "dwt")]
    @@ resource_webhooks

\* main, line 333.
validate_webhooks ==
    /\ hpc = "validate_webhooks"
    /\ webhooks_dict' = [k \in 1 .. Len(webhooks_dict) |->
                            validate_webhooks_result(webhooks_dict[k])]
    /\ hpc' = "display_results"
    /\ UNCHANGED <<pipeline_config, results, runVars, codecVars, selVars>>

\* display_results, lines 236-268: the reasons one resource adds.
failed_reasons(entry) ==
    (IF entry.rwv = 0 THEN <<>> ELSE <<<<entry.name, "rwv", 1>>>>)
    \o (IF entry.cwv = 0 THEN <<>>
        ELSE <<<<entry.name, "cwv", IF entry.cwv = 1 THEN 1 ELSE 2>>>>)
    \o (IF entry.dwv = 0 THEN <<>>
        ELSE <<<<entry.name, "dwv", IF entry.dwv = 1 THEN 1 ELSE 2>>>>)

\* display_results, lines 229-268: the reasons of the entries from k on.
RECURSIVE resource_failed_reasons(_, _)
resource_failed_reasons(dict, k) ==
    IF k > Len(dict) THEN <<>>
    ELSE failed_reasons(dict[k]) \o resource_failed_reasons(dict, k + 1)

\* display_results, lines 229-283: the flag is set wherever a reason is
\* appended.
display_results_result(dict) ==
    [returned |-> TRUE,
     resource_validation_failed |->
        IF resource_failed_reasons(dict, 1) = <<>> THEN 0 ELSE 1,
     resource_failed_reasons |-> resource_failed_reasons(dict, 1)]

\* main, lines 334-344.
display_results ==
    /\ hpc = "display_results"
    /\ results' = display_results_result(webhooks_dict)
    /\ hpc' = IF results'.resource_validation_failed = 0
              THEN "done" ELSE "failed"
    /\ UNCHANGED <<pipeline_config, webhooks_dict, runVars, codecVars, selVars>>

HookNext ==
    \/ load_pipeline_config
    \/ validate_pipeline_config
    \/ parse_pipeline_resources
    \/ parse_pipeline_jobs
    \/ validate_webhooks
    \/ display_results

HookStart == HookInit /\ RunIdle /\ CodecIdle /\ SelectIdle

\* One run of the webhook validator.
HookSpec == HookStart /\ [][HookNext]_vars

\* A token holds a character that is neither a letter nor a digit.
NonAlphaNumeric(token) == \E i \in 1 .. Len(token) : token[i] \notin AlphaNumeric

\* The resource has a non-alphanumeric token, or a create-webhooks or a
\* delete-webhooks token that is absent or differs from its own.
HookAtFault(entry) ==
    \/ NonAlphaNumeric(entry.rwt)
    \/ "cwt" \notin DOMAIN entry
    \/ entry.cwt # entry.rwt
    \/ "dwt" \notin DOMAIN entry
    \/ entry.dwt # entry.rwt

\* C39: when display_results has returned, it returned 1 and the validator
\* exited with a non-zero status exactly when some webhooked resource is at
\* fault, and the codes of every resource are 0 or 1 for the token (valid or
\* not) and 0, 1 or 2 for each job token (match, no match, none found).
C39_FailureIffSomeResourceAtFault ==
    results.returned =>
        /\ (results.resource_validation_failed = 1 /\ exit_status(hpc) # 0)
                <=> \E k \in 1 .. Len(webhooks_dict) : HookAtFault(webhooks_dict[k])
        /\ \A k \in 1 .. Len(webhooks_dict) :
            LET entry == webhooks_dict[k] IN
            /\ entry.rwv = (IF NonAlphaNumeric(entry.rwt) THEN 1 ELSE 0)
            /\ entry.cwv = (IF "cwt" \notin DOMAIN entry THEN 2
                            ELSE IF entry.cwt = entry.rwt THEN 0 ELSE 1)
            /\ entry.dwv = (IF "dwt" \notin DOMAIN entry THEN 2
                            ELSE IF entry.dwt = entry.rwt THEN 0 ELSE 1)

============================================================================
